---- MODULE Spec2Model ----
(***************************************************************************)
(* Model of the image-to-Word converter: the layout reconstruction of      *)
(* app.py (_format_text_structure, _detect_tables), clean_text and         *)
(* validate_image of utils.py, the OCR engines of ocr_engine.py and        *)
(* handwriting_ocr.py, process_image, a run of main, and the confidence    *)
(* report of document_generator.py.                                        *)
(*                                                                         *)
(* A Python str is modelled as a sequence of one-character strings, so     *)
(* that split, join and strip are computed and not assumed.  Pixel         *)
(* coordinates are integers.  A confidence is an integer number of         *)
(* hundredths (0.8 is 80), for both engines.                               *)
(***************************************************************************)
EXTENDS Integers, Sequences, FiniteSets, TLC

VARIABLES
    pc,              \* the operation that ran last
    args,            \* the other arguments of that call
    raised,          \* the exception it raised, "none" when it returned
    text_blocks,     \* the fragment list handed to the operation
    formatted_text,  \* value returned by _format_text_structure
    rows,            \* the local `rows` of _detect_tables when its loop ends
    tables,          \* value returned by _detect_tables
    doc,             \* WordDocumentGenerator.doc: the body elements added
    ocr_engine,      \* ImageToWordConverter.ocr_engine
    ocr,             \* the last call of extract_text_with_positions
    calls,           \* the calls made so far, in order
    result           \* value returned (or exception raised) by process_image

vars == <<pc, args, raised, text_blocks, formatted_text, rows, tables, doc,
          ocr_engine, ocr, calls, result>>

-----------------------------------------------------------------------------
(* Python values *)

\* Optional values: None is the empty sequence, Some(v) a one-element one.
None == <<>>

Some(v) == <<v>>

Abs(n) == IF n < 0 THEN -n ELSE n

\* str.isspace for the characters of the model's alphabet.
IsSpace(c) == c \in {" ", "\n", "\t"}

RECURSIVE LStrip(_)
LStrip(s) ==
    IF s = <<>> THEN <<>>
    ELSE IF IsSpace(Head(s)) THEN LStrip(Tail(s)) ELSE s

RECURSIVE RStrip(_)
RStrip(s) ==
    IF s = <<>> THEN <<>>
    ELSE IF IsSpace(s[Len(s)]) THEN RStrip(SubSeq(s, 1, Len(s) - 1)) ELSE s

\* str.strip()
Strip(s) == RStrip(LStrip(s))

\* str.split(): the maximal runs of non-whitespace characters, in order.
\* `word` is the run being read.
RECURSIVE SplitFrom(_, _)
SplitFrom(s, word) ==
    IF s = <<>> THEN (IF word = <<>> THEN <<>> ELSE <<word>>)
    ELSE IF IsSpace(Head(s))
         THEN (IF word = <<>> THEN <<>> ELSE <<word>>) \o SplitFrom(Tail(s), <<>>)
         ELSE SplitFrom(Tail(s), Append(word, Head(s)))

Split(s) == SplitFrom(s, <<>>)

\* sep.join(parts)
RECURSIVE Join(_, _)
Join(parts, sep) ==
    IF parts = <<>> THEN <<>>
    ELSE IF Len(parts) = 1 THEN parts[1]
    ELSE parts[1] \o sep \o Join(Tail(parts), sep)

\* A clean_text that only strips, leaving whitespace runs inside the text.
CleanTextNoCollapse(text) == Strip(text)

\* utils.clean_text: the replacements table is built and never applied.
clean_text(text) ==
    IF text = <<>> THEN <<>>
    ELSE Strip(Join(Split(text), <<" ">>))

-----------------------------------------------------------------------------
(* _format_text_structure *)

line_height_threshold == 30

\* The loop body ending a paragraph with one newline only.
ParaStepSingleNewline(st, block) ==
    LET text == clean_text(block.text)
        y_pos == block.y_center
        flush == st.last_y # None
                 /\ Abs(y_pos - st.last_y[1]) > line_height_threshold
                 /\ st.current_paragraph # <<>>
    IN  [formatted_text |->
            IF flush
            THEN st.formatted_text \o Join(st.current_paragraph, <<" ">>)
                     \o <<"\n">>
            ELSE st.formatted_text,
         current_paragraph |->
            Append(IF flush THEN <<>> ELSE st.current_paragraph, text),
         last_y |-> Some(y_pos)]

\* The loop body with >= in place of > (a gap of exactly 30 would break).
ParaStepGe(st, block) ==
    LET text == clean_text(block.text)
        y_pos == block.y_center
        flush == st.last_y # None
                 /\ Abs(y_pos - st.last_y[1]) >= line_height_threshold
                 /\ st.current_paragraph # <<>>
    IN  [formatted_text |->
            IF flush
            THEN st.formatted_text \o Join(st.current_paragraph, <<" ">>)
                     \o <<"\n", "\n">>
            ELSE st.formatted_text,
         current_paragraph |->
            Append(IF flush THEN <<>> ELSE st.current_paragraph, text),
         last_y |-> Some(y_pos)]

\* One iteration of the loop over text_blocks; st holds the locals
\* formatted_text, current_paragraph and last_y.
ParaStep(st, block) ==
    LET text == clean_text(block.text)
        y_pos == block.y_center
        flush == st.last_y # None
                 /\ Abs(y_pos - st.last_y[1]) > line_height_threshold
                 /\ st.current_paragraph # <<>>
    IN  [formatted_text |->
            IF flush
            THEN st.formatted_text \o Join(st.current_paragraph, <<" ">>)
                     \o <<"\n", "\n">>
            ELSE st.formatted_text,
         current_paragraph |->
            Append(IF flush THEN <<>> ELSE st.current_paragraph, text),
         last_y |-> Some(y_pos)]

RECURSIVE ParaLoop(_, _)
ParaLoop(st, blocks) ==
    IF blocks = <<>> THEN st
    ELSE ParaLoop(ParaStep(st, Head(blocks)), Tail(blocks))

\* A _format_text_structure that ends every paragraph, the last one too, with
\* the separator and does not strip the result.
FormatTextStructureTrailingSeparator(blocks) ==
    IF blocks = <<>> THEN <<>>
    ELSE LET st == ParaLoop([formatted_text |-> <<>>,
                             current_paragraph |-> <<>>,
                             last_y |-> None], blocks)
         IN  st.formatted_text \o Join(st.current_paragraph, <<" ">>)
                 \o <<"\n", "\n">>

FormatTextStructure(blocks) ==
    IF blocks = <<>> THEN <<>>
    ELSE LET st == ParaLoop([formatted_text |-> <<>>,
                             current_paragraph |-> <<>>,
                             last_y |-> None], blocks)
         IN  Strip(IF st.current_paragraph # <<>>
                   THEN st.formatted_text \o Join(st.current_paragraph, <<" ">>)
                   ELSE st.formatted_text)

-----------------------------------------------------------------------------
(* _detect_tables *)

y_threshold == 20

\* sorted(row, key=lambda x: x['x_center']): a stable sort, so fragments with
\* equal x_center keep their input order.
RECURSIVE InsertByX(_, _)
InsertByX(sorted, block) ==
    IF sorted = <<>> THEN <<block>>
    ELSE IF sorted[Len(sorted)].x_center <= block.x_center
         THEN Append(sorted, block)
         ELSE Append(InsertByX(SubSeq(sorted, 1, Len(sorted) - 1), block),
                     sorted[Len(sorted)])

RECURSIVE SortFrom(_, _)
SortFrom(sorted, row) ==
    IF row = <<>> THEN sorted
    ELSE SortFrom(InsertByX(sorted, Head(row)), Tail(row))

\* A row left in input order.
SortedByXUnsorted(row) == row

SortedByX(row) == SortFrom(<<>>, row)

\* The loop body with current_y following the last fragment seen.
RowStepLastSeen(st, block) ==
    IF st.current_y = None
       \/ Abs(block.y_center - st.current_y[1]) < y_threshold
    THEN [rows |-> st.rows,
          current_row |-> Append(st.current_row, block),
          current_y |-> Some(block.y_center)]
    ELSE [rows |-> IF st.current_row # <<>>
                   THEN Append(st.rows, SortedByX(st.current_row))
                   ELSE st.rows,
          current_row |-> <<block>>,
          current_y |-> Some(block.y_center)]

\* One iteration of the row-clustering loop; st holds the locals rows,
\* current_row and current_y.
RowStep(st, block) ==
    IF st.current_y = None
       \/ Abs(block.y_center - st.current_y[1]) < y_threshold
    THEN [rows |-> st.rows,
          current_row |-> Append(st.current_row, block),
          current_y |-> IF st.current_y = None
                        THEN Some(block.y_center) ELSE st.current_y]
    ELSE [rows |-> IF st.current_row # <<>>
                   THEN Append(st.rows, SortedByX(st.current_row))
                   ELSE st.rows,
          current_row |-> <<block>>,
          current_y |-> Some(block.y_center)]

RECURSIVE RowLoop(_, _)
RowLoop(st, blocks) ==
    IF blocks = <<>> THEN st
    ELSE RowLoop(RowStep(st, Head(blocks)), Tail(blocks))

RECURSIVE InsertByY(_, _)
InsertByY(sorted, block) ==
    IF sorted = <<>> THEN <<block>>
    ELSE IF sorted[Len(sorted)].y_center <= block.y_center
         THEN Append(sorted, block)
         ELSE Append(InsertByY(SubSeq(sorted, 1, Len(sorted) - 1), block),
                     sorted[Len(sorted)])

RECURSIVE SortByYFrom(_, _)
SortByYFrom(sorted, blocks) ==
    IF blocks = <<>> THEN sorted
    ELSE SortByYFrom(InsertByY(sorted, Head(blocks)), Tail(blocks))

\* A clustering that sorts the fragments by y_center before it groups them.
ClusterRowsSortedByY(blocks) ==
    LET st == RowLoop([rows |-> <<>>, current_row |-> <<>>, current_y |-> None],
                      SortByYFrom(<<>>, blocks))
    IN  IF st.current_row # <<>>
        THEN Append(st.rows, SortedByX(st.current_row))
        ELSE st.rows

\* The local `rows` once the loop has ended and the open row is closed.
ClusterRows(blocks) ==
    LET st == RowLoop([rows |-> <<>>, current_row |-> <<>>, current_y |-> None],
                      blocks)
    IN  IF st.current_row # <<>>
        THEN Append(st.rows, SortedByX(st.current_row))
        ELSE st.rows

\* [clean_text(block['text']) for block in row]
TableRow(row) == [i \in 1..Len(row) |-> clean_text(row[i].text)]

\* The local `tables`: one table row per clustered row of more than 1 fragment.
RECURSIVE TableRows(_)
TableRows(rs) ==
    IF rs = <<>> THEN <<>>
    ELSE (IF Len(Head(rs)) > 1 THEN <<TableRow(Head(rs))>> ELSE <<>>)
             \o TableRows(Tail(rs))

\* _detect_tables accepting a single qualifying row.
DetectTablesAnyRow(blocks) ==
    LET t == TableRows(ClusterRows(blocks))
    IN  IF Len(t) > 0 THEN t ELSE <<>>

DetectTables(blocks) ==
    LET t == TableRows(ClusterRows(blocks))
    IN  IF Len(t) > 1 THEN t ELSE <<>>

-----------------------------------------------------------------------------
(* WordDocumentGenerator.add_extracted_text: text_content.split('\n\n') *)

\* str.split('\n\n'): cut at each occurrence of the separator, scanning left to
\* right without overlap; empty pieces are kept.  `piece` is the piece being read.
RECURSIVE SplitBlankFrom(_, _)
SplitBlankFrom(s, piece) ==
    IF s = <<>> THEN <<piece>>
    ELSE IF Len(s) >= 2 /\ s[1] = "\n" /\ s[2] = "\n"
         THEN <<piece>> \o SplitBlankFrom(SubSeq(s, 3, Len(s)), <<>>)
         ELSE SplitBlankFrom(Tail(s), Append(piece, Head(s)))

SplitParagraphs(text_content) == SplitBlankFrom(text_content, <<>>)

-----------------------------------------------------------------------------
(* WordDocumentGenerator: the document is the sequence of body elements added *)
(* to self.doc.  A fixed title or label is a TLA+ string; text that comes     *)
(* from the image is a sequence of characters.                                *)

Heading(title, level) == [kind |-> "heading", title |-> title, level |-> level]

TextHeading(text, level) == [kind |-> "heading", text |-> text, level |-> level]

Paragraph(text) == [kind |-> "paragraph", text |-> text]

LabelParagraph(label) == [kind |-> "paragraph", label |-> label]

\* doc.add_paragraph() with no text
EmptyParagraph == [kind |-> "paragraph", text |-> <<>>]

\* __init__: Document() has no body element yet.
NewDocument == <<>>

add_header(d) ==
    d \o << Heading("Extracted Document Content", 0),
            LabelParagraph("Generated on <timestamp>"),
            LabelParagraph("__________________________________________________"),
            EmptyParagraph >>

\* The picture is 6 inches wide for a landscape image; otherwise it is
\* 6.5 inches high and width * 6.5 / height wide (kept as a fraction).
add_original_image(d, image) ==
    IF image = None THEN d
    ELSE LET img == image[1]
             width_inches ==
                 IF img.width > img.height
                 THEN [num |-> 6, den |-> 1]
                 ELSE [num |-> img.width * 65, den |-> img.height * 10]
         IN  d \o << Heading("Original Image", 1),
                     [kind |-> "picture", image |-> img, width |-> width_inches],
                     EmptyParagraph >>

LowerCase == << "a", "b", "c", "d", "e", "f", "g", "h", "i", "j", "k", "l", "m",
                "n", "o", "p", "q", "r", "s", "t", "u", "v", "w", "x", "y", "z" >>

UpperCase == << "A", "B", "C", "D", "E", "F", "G", "H", "I", "J", "K", "L", "M",
                "N", "O", "P", "Q", "R", "S", "T", "U", "V", "W", "X", "Y", "Z" >>

\* str.lower(), one character
LowerChar(c) ==
    IF \E k \in 1..26 : UpperCase[k] = c
    THEN LowerCase[CHOOSE k \in 1..26 : UpperCase[k] = c]
    ELSE c

Lower(text) == [k \in 1..Len(text) |-> LowerChar(text[k])]

\* str.isupper(): some cased character, and no lower-case one
IsUpper(text) ==
    /\ \E k \in 1..Len(text) : \E u \in 1..26 : text[k] = UpperCase[u]
    /\ ~ \E k \in 1..Len(text) : \E l \in 1..26 : text[k] = LowerCase[l]

\* pattern in text
Contains(text, pattern) ==
    \E k \in 0..(Len(text) - Len(pattern)) :
        SubSeq(text, k + 1, k + Len(pattern)) = pattern

heading_patterns ==
    { <<"c", "h", "a", "p", "t", "e", "r">>,
      <<"s", "e", "c", "t", "i", "o", "n">>,
      <<"p", "a", "r", "t">>,
      <<"i", "n", "t", "r", "o", "d", "u", "c", "t", "i", "o", "n">>,
      <<"c", "o", "n", "c", "l", "u", "s", "i", "o", "n">> }

_is_likely_heading(text) ==
    IF Len(text) > 100 THEN FALSE
    ELSE IF IsUpper(text) /\ Len(text) < 50 THEN TRUE
    ELSE IF text # <<>> /\ text[Len(text)] = ":" /\ Len(text) < 50 THEN TRUE
    ELSE \E pattern \in heading_patterns : Contains(Lower(text), pattern)

\* The loop over text_content.split('\n\n') with preserve_formatting.
RECURSIVE ParagraphElements(_)
ParagraphElements(paragraphs) ==
    IF paragraphs = <<>> THEN <<>>
    ELSE LET para_text == Strip(Head(paragraphs))
         IN  (IF para_text # <<>>
              THEN IF _is_likely_heading(para_text)
                   THEN <<TextHeading(para_text, 2)>>
                   ELSE <<Paragraph(para_text)>>
              ELSE <<>>) \o ParagraphElements(Tail(paragraphs))

\* Variant: the text is added as a single block.
AddExtractedTextSingleBlock(d, text_content) ==
    IF Strip(text_content) = <<>> THEN d
    ELSE d \o <<Heading("Extracted Text Content", 1)>>
           \o <<Paragraph(Strip(text_content))>>
           \o <<EmptyParagraph>>

add_extracted_text(d, text_content) ==
    IF Strip(text_content) = <<>> THEN d
    ELSE d \o <<Heading("Extracted Text Content", 1)>>
           \o ParagraphElements(SplitParagraphs(text_content))
           \o <<EmptyParagraph>>

\* max(len(row) for row in table_data)
RECURSIVE MaxLen(_)
MaxLen(table_data) ==
    IF table_data = <<>> THEN 0
    ELSE LET rest == MaxLen(Tail(table_data))
         IN  IF Len(Head(table_data)) > rest THEN Len(Head(table_data)) ELSE rest

\* The cells of doc.add_table(rows=len(table_data), cols=max_cols) after the
\* fill loop: cell (r, c) holds str(table_data[r][c]).strip(), a cell that the
\* loop does not reach stays empty.  The caller passes the value of
\* _detect_tables, a list of rows of strings, so table_data is one such row and
\* table_data[r][c] is character c of its r-th string.
FilledCells(table_data, max_cols) ==
    [r \in 1..Len(table_data) |->
        [c \in 1..max_cols |->
            IF c <= Len(table_data[r]) THEN Strip(<<table_data[r][c]>>) ELSE <<>>]]

\* One iteration of `for i, table_data in enumerate(tables)` (no table_titles);
\* i counts from 0.
TableElements(table_data, i) ==
    IF table_data = <<>> THEN <<>>
    ELSE LET max_cols == MaxLen(table_data)
         IN  <<[kind |-> "heading", number |-> i + 1, level |-> 2]>>
             \o (IF max_cols > 0
                 THEN << [kind |-> "table",
                          cells |-> FilledCells(table_data, max_cols)],
                         EmptyParagraph >>
                 ELSE <<>>)

RECURSIVE TablesFrom(_, _)
TablesFrom(tbls, i) ==
    IF i >= Len(tbls) THEN <<>>
    ELSE TableElements(tbls[i + 1], i) \o TablesFrom(tbls, i + 1)

add_tables(d, tbls) ==
    IF tbls = <<>> THEN d
    ELSE d \o <<Heading("Detected Tables", 1)>> \o TablesFrom(tbls, 0)

\* stats is a dict of 4 entries: one table row of (key, str(value)) each.
add_processing_summary(d, stats) ==
    d \o << Heading("Processing Summary", 1),
            [kind |-> "table", data |-> stats] >>

\* a / b on floats: ZeroDivisionError when b is 0, else the quotient (kept as
\* an exact fraction).
TrueDiv(a, b) ==
    IF b = 0 THEN [error |-> "ZeroDivisionError"]
    ELSE [error |-> "none", num |-> a, den |-> b]

RECURSIVE SumConfidence(_)
SumConfidence(blocks) ==
    IF blocks = <<>> THEN 0
    ELSE Head(blocks).confidence + SumConfidence(Tail(blocks))

\* f"{avg_confidence:.1%}": the fraction num/den of hundredths (num/den percent)
\* rounded to one decimal of a percent, ties to even; the value in tenths of a
\* percent.
FormatPercent1(num, den) ==
    LET q == (10 * num) \div den
        r == (10 * num) % den
    IN  IF 2 * r > den THEN q + 1
        ELSE IF 2 * r < den THEN q
        ELSE IF q % 2 = 0 THEN q ELSE q + 1

\* sum(1 for block in text_blocks if <condition>)
RECURSIVE CountHigh(_)
CountHigh(blocks) ==
    IF blocks = <<>> THEN 0
    ELSE (IF Head(blocks).confidence > 80 THEN 1 ELSE 0) + CountHigh(Tail(blocks))

\* The medium count with both bounds strict.
RECURSIVE CountMediumOpen(_)
CountMediumOpen(blocks) ==
    IF blocks = <<>> THEN 0
    ELSE (IF 50 < Head(blocks).confidence /\ Head(blocks).confidence < 80
          THEN 1 ELSE 0) + CountMediumOpen(Tail(blocks))

RECURSIVE CountMedium(_)
CountMedium(blocks) ==
    IF blocks = <<>> THEN 0
    ELSE (IF 50 <= Head(blocks).confidence /\ Head(blocks).confidence <= 80
          THEN 1 ELSE 0) + CountMedium(Tail(blocks))

RECURSIVE CountLow(_)
CountLow(blocks) ==
    IF blocks = <<>> THEN 0
    ELSE (IF Head(blocks).confidence < 50 THEN 1 ELSE 0) + CountLow(Tail(blocks))

\* The statements of add_confidence_scores after its guard: the result is the
\* document and the exception raised, if any.
ConfidenceSection(d, blocks) ==
    LET heading == Heading("Text Extraction Confidence", 1)
        avg_confidence == TrueDiv(SumConfidence(blocks), Len(blocks))
    IN  IF avg_confidence.error # "none"
        THEN [doc |-> d \o <<heading>>, raised |-> avg_confidence.error]
        ELSE [doc |-> d \o
                << heading,
                   [kind |-> "paragraph",
                    label |-> "Average confidence score",
                    tenths_percent |-> FormatPercent1(avg_confidence.num,
                                                      avg_confidence.den)],
                   [kind |-> "table",
                    data |-> << <<"Confidence Level", "Text Blocks">>,
                                <<"High (>80%)", CountHigh(blocks)>>,
                                <<"Medium (50-80%)", CountMedium(blocks)>>,
                                <<"Low (<50%)", CountLow(blocks)>> >>] >>,
              raised |-> "none"]

\* add_confidence_scores without its test of text_blocks.
add_confidence_scores_unguarded(d, blocks) == ConfidenceSection(d, blocks)

add_confidence_scores(d, blocks) ==
    IF blocks = <<>> THEN [doc |-> d, raised |-> "none"]
    ELSE ConfidenceSection(d, blocks)

\* Variant: the tables are added before the extracted text.
CreateCompleteDocumentTablesFirst(text_content, tbls, original_image, blocks, include_stats) ==
    LET d1 == add_header(NewDocument)
        d2 == IF original_image # None THEN add_original_image(d1, original_image)
              ELSE d1
        d3 == IF tbls # <<>> THEN add_tables(d2, tbls) ELSE d2
        d4 == IF text_content # <<>> THEN add_extracted_text(d3, text_content)
              ELSE d3
    IN  IF include_stats /\ blocks # <<>>
        THEN add_confidence_scores(
                 add_processing_summary(d4,
                     << <<"Total Text Blocks", Len(blocks)>>,
                        <<"Total Words",
                          IF text_content # <<>> THEN Len(Split(text_content))
                          ELSE 0>>,
                        <<"Tables Detected",
                          IF tbls # <<>> THEN Len(tbls) ELSE 0>>,
                        <<"Processing Engine", "EasyOCR + Tesseract">> >>),
                 blocks)
        ELSE [doc |-> d4, raised |-> "none"]

\* create_complete_document on a fresh generator; an absent original_image or
\* text_blocks is None, which the code treats like an empty list.  The value
\* returned is the saved document.
create_complete_document(text_content, tbls, original_image, blocks, include_stats) ==
    LET d1 == add_header(NewDocument)
        d2 == IF original_image # None THEN add_original_image(d1, original_image)
              ELSE d1
        d3 == IF text_content # <<>> THEN add_extracted_text(d2, text_content)
              ELSE d2
        d4 == IF tbls # <<>> THEN add_tables(d3, tbls) ELSE d3
    IN  IF include_stats /\ blocks # <<>>
        THEN add_confidence_scores(
                 add_processing_summary(d4,
                     << <<"Total Text Blocks", Len(blocks)>>,
                        <<"Total Words",
                          IF text_content # <<>> THEN Len(Split(text_content))
                          ELSE 0>>,
                        <<"Tables Detected",
                          IF tbls # <<>> THEN Len(tbls) ELSE 0>>,
                        <<"Processing Engine", "EasyOCR + Tesseract">> >>),
                 blocks)
        ELSE [doc |-> d4, raised |-> "none"]

-----------------------------------------------------------------------------
(* utils.py image transforms: an image is its size, its mode and whether the *)
(* contrast and sharpness enhancement has been applied.                      *)

enhance_image_quality(image) ==
    [image EXCEPT !.mode = "RGB", !.enhanced = TRUE]

max_dimension == 2000

\* int(a / b) for non-negative a and positive b
IntDiv(a, b) == a \div b

resize_image_if_needed(image) ==
    LET width == image.width
        height == image.height
    IN  IF (IF width > height THEN width ELSE height) > max_dimension
        THEN IF width > height
             THEN [image EXCEPT !.width = max_dimension,
                                !.height = IntDiv(height * max_dimension, width)]
             ELSE [image EXCEPT !.height = max_dimension,
                                !.width = IntDiv(width * max_dimension, height)]
        ELSE image

-----------------------------------------------------------------------------
(* ocr_engine.py.  What the recogniser (easyocr's readtext, pytesseract's    *)
(* image_to_data) reports for one piece of text is a record of its text, its *)
(* box (left, top, width, height) and its score in hundredths; `outcome`     *)
(* says whether the recogniser call returned ("ok") or raised ("raises").    *)

BBox(d) ==
    << <<d.left, d.top>>,
       <<d.left + d.width, d.top>>,
       <<d.left + d.width, d.top + d.height>>,
       <<d.left, d.top + d.height>> >>

\* The model's boxes have even widths and heights, so a centre is an integer.
Half(n) == n \div 2

TesseractEngine == [class |-> "TesseractEngine", config |-> "--oem 3 --psm 6"]

\* EasyOCREngine.__init__: reader is None when easyocr.Reader raised.
EasyOCREngine(reader_init) ==
    [class |-> "EasyOCREngine",
     reader |-> IF reader_init = "ok" THEN Some("Reader") ELSE None]

\* TesseractEngine.extract_text_with_positions, the loop over the boxes
RECURSIVE TesseractBlocks(_)
TesseractBlocks(data) ==
    IF data = <<>> THEN <<>>
    ELSE LET d == Head(data)
             text == Strip(d.text)
             confidence == d.conf
         IN  (IF text # <<>> /\ confidence > 30
              THEN << [text |-> text,
                       bbox |-> BBox(d),
                       x_center |-> d.left + Half(d.width),
                       y_center |-> d.top + Half(d.height),
                       confidence |-> confidence] >>
              ELSE <<>>) \o TesseractBlocks(Tail(data))

\* EasyOCREngine.extract_text_with_positions, the loop over the results
RECURSIVE EasyOCRBlocks(_)
EasyOCRBlocks(results) ==
    IF results = <<>> THEN <<>>
    ELSE LET d == Head(results)
             bbox == BBox(d)
         IN  (IF d.conf > 30
              THEN << [text |-> Strip(d.text),
                       bbox |-> bbox,
                       x_center |-> Half(bbox[1][1] + bbox[3][1]),
                       y_center |-> Half(bbox[1][2] + bbox[3][2]),
                       confidence |-> d.conf] >>
              ELSE <<>>) \o EasyOCRBlocks(Tail(results))

\* engine.extract_text_with_positions(image): both engines catch every
\* exception of the recogniser call and return the empty list.
extract_text_with_positions(engine, outcome, results) ==
    IF engine.class = "EasyOCREngine"
    THEN IF engine.reader = None THEN <<>>
         ELSE IF outcome = "raises" THEN <<>>
         ELSE EasyOCRBlocks(results)
    ELSE IF outcome = "raises" THEN <<>>
         ELSE TesseractBlocks(results)

Chars_tesseract == <<"t", "e", "s", "s", "e", "r", "a", "c", "t">>

Chars_easyocr == <<"e", "a", "s", "y", "o", "c", "r">>

\* OCREngineFactory.create_engine: the engine, or the exception raised
create_engine(engine_type, reader_init) ==
    IF Lower(engine_type) = Chars_tesseract
    THEN [engine |-> Some(TesseractEngine), raised |-> "none"]
    ELSE IF Lower(engine_type) = Chars_easyocr
    THEN [engine |-> Some(EasyOCREngine(reader_init)), raised |-> "none"]
    ELSE [engine |-> None, raised |-> "ValueError"]

\* OCREngineFactory.get_available_engines: env says which checks succeed.
get_available_engines(env) ==
    (IF env.tesseract THEN <<"tesseract">> ELSE <<>>)
        \o (IF env.easyocr THEN <<"easyocr">> ELSE <<>>)

InList(e, list) == \E k \in 1..Len(list) : list[k] = e

\* A get_best_ocr_engine that prefers tesseract.
GetBestOcrEngineTesseractFirst(env) ==
    LET available_engines == get_available_engines(env)
    IN  IF InList("tesseract", available_engines)
        THEN create_engine(Chars_tesseract, env.reader_init)
        ELSE IF InList("easyocr", available_engines)
        THEN create_engine(Chars_easyocr, env.reader_init)
        ELSE [engine |-> None, raised |-> "RuntimeError"]

get_best_ocr_engine(env) ==
    LET available_engines == get_available_engines(env)
    IN  IF InList("easyocr", available_engines)
        THEN create_engine(Chars_easyocr, env.reader_init)
        ELSE IF InList("tesseract", available_engines)
        THEN create_engine(Chars_tesseract, env.reader_init)
        ELSE [engine |-> None, raised |-> "RuntimeError"]

-----------------------------------------------------------------------------
(* handwriting_ocr.py *)

\* HandwritingOCREngine.__init__: reader is None when easyocr.Reader raised.
HandwritingOCREngine(reader_init) ==
    [class |-> "HandwritingOCREngine",
     reader |-> IF reader_init = "ok" THEN Some("Reader") ELSE None]

\* The loop of extract_handwritten_text keeping a score of exactly 0.05 too.
HandwritingBlocksFloorInclusive(results) ==
    LET Block(d) == [text |-> Strip(d.text),
                     bbox |-> BBox(d),
                     x_center |-> Half(BBox(d)[1][1] + BBox(d)[3][1]),
                     y_center |-> Half(BBox(d)[1][2] + BBox(d)[3][2]),
                     confidence |-> d.conf]
        kept == SelectSeq(results,
                          LAMBDA d : d.conf >= 5 /\ Len(Strip(d.text)) > 0)
    IN  [k \in 1..Len(kept) |-> Block(kept[k])]

\* HandwritingOCREngine.extract_handwritten_text, the loop over the results
RECURSIVE HandwritingBlocks(_)
HandwritingBlocks(results) ==
    IF results = <<>> THEN <<>>
    ELSE LET d == Head(results)
             bbox == BBox(d)
         IN  (IF d.conf > 5 /\ Len(Strip(d.text)) > 0
              THEN << [text |-> Strip(d.text),
                       bbox |-> bbox,
                       x_center |-> Half(bbox[1][1] + bbox[3][1]),
                       y_center |-> Half(bbox[1][2] + bbox[3][2]),
                       confidence |-> d.conf] >>
              ELSE <<>>) \o HandwritingBlocks(Tail(results))

\* engine.extract_handwritten_text(image): [] without a reader, and [] when the
\* preprocessing or the recogniser call raised.
extract_handwritten_text(engine, outcome, results) ==
    IF engine.reader = None THEN <<>>
    ELSE IF outcome = "raises" THEN <<>>
    ELSE HandwritingBlocks(results)

\* The position in unique_results of the entry whose key is text, 0 if none.
\* unique_results is the dict as the sequence of its values in insertion order.
KeyIndex(unique_results, text) ==
    IF \E k \in 1..Len(unique_results) : unique_results[k].text = text
    THEN CHOOSE k \in 1..Len(unique_results) : unique_results[k].text = text
    ELSE 0

\* The loop body storing every result under its text, whatever its confidence.
MergeStepKeepLast(unique_results, entry) ==
    LET k == KeyIndex(unique_results, entry.text)
    IN  IF k = 0 THEN Append(unique_results, entry)
        ELSE [unique_results EXCEPT ![k] = entry]

\* One iteration of the loop over all_results (entry is the loop's `result`):
\* it is stored when its text is new or its confidence is greater than the
\* stored one's.
MergeStep(unique_results, entry) ==
    LET k == KeyIndex(unique_results, entry.text)
    IN  IF k = 0 THEN Append(unique_results, entry)
        ELSE IF entry.confidence > unique_results[k].confidence
        THEN [unique_results EXCEPT ![k] = entry]
        ELSE unique_results

RECURSIVE MergeLoop(_, _)
MergeLoop(unique_results, all_results) ==
    IF all_results = <<>> THEN unique_results
    ELSE MergeLoop(MergeStep(unique_results, Head(all_results)),
                   Tail(all_results))

\* list(unique_results.values()) once the loop over all_results has ended
Merge(all_results) == MergeLoop(<<>>, all_results)

\* What one attempt adds to all_results.  For attempts 2 and 3 `prepared` says
\* whether the image variant (higher contrast, inverted colours) could be
\* built; when building it raised, the attempt is skipped.
AttemptResults(engine, attempt) ==
    IF attempt.prepared = "raises" THEN <<>>
    ELSE extract_handwritten_text(engine, attempt.outcome, attempt.results)

\* all_results after the three attempts
AllResults(engine, attempts) ==
    AttemptResults(engine, attempts[1]) \o AttemptResults(engine, attempts[2])
        \o AttemptResults(engine, attempts[3])

extract_with_multiple_attempts(engine, attempts) ==
    Merge(AllResults(engine, attempts))

-----------------------------------------------------------------------------
(* ImageToWordConverter *)

\* __init__
NewConverter(ocr_engine_type, env) ==
    LET created == create_engine(ocr_engine_type, env.reader_init)
    IN  IF created.raised # "none" THEN created
        ELSE IF created.engine = None THEN get_best_ocr_engine(env)
        ELSE created

\* process_image without the test of text_blocks.
ProcessImageResultNoTest(blocks, detect_tables) ==
    [text_blocks |-> blocks,
     formatted_text |-> FormatTextStructure(blocks),
     tables |-> IF detect_tables THEN DetectTables(blocks) ELSE <<>>,
     processing_time |-> "elapsed",
     success |-> TRUE,
     error |-> None]

\* process_image detecting tables whatever detect_tables is.
ProcessImageResultAlwaysTables(blocks, detect_tables) ==
    IF blocks = <<>>
    THEN [text_blocks |-> <<>>,
          formatted_text |-> <<>>,
          tables |-> <<>>,
          processing_time |-> "elapsed",
          success |-> FALSE,
          error |-> Some("No text detected in image")]
    ELSE [text_blocks |-> blocks,
          formatted_text |-> FormatTextStructure(blocks),
          tables |-> DetectTables(blocks),
          processing_time |-> "elapsed",
          success |-> TRUE,
          error |-> None]

\* process_image from the test of text_blocks on; processing_time is the
\* elapsed wall-clock time, whatever it is.
ProcessImageResult(blocks, detect_tables) ==
    IF blocks = <<>>
    THEN [text_blocks |-> <<>>,
          formatted_text |-> <<>>,
          tables |-> <<>>,
          processing_time |-> "elapsed",
          success |-> FALSE,
          error |-> Some("No text detected in image")]
    ELSE [text_blocks |-> blocks,
          formatted_text |-> FormatTextStructure(blocks),
          tables |-> IF detect_tables THEN DetectTables(blocks) ELSE <<>>,
          processing_time |-> "elapsed",
          success |-> TRUE,
          error |-> None]

\* The image handed to the OCR engine
PreparedImage(image, enhance_quality) ==
    IF enhance_quality
    THEN resize_image_if_needed(enhance_image_quality(image))
    ELSE image

\* process_image resizing before it enhances, and handing the image it was
\* given to the OCR engine.
ProcessImageCallsResizeFirst(image, enhance_quality) ==
    (IF enhance_quality
     THEN << [fn |-> "resize_image_if_needed", image |-> image],
             [fn |-> "enhance_image_quality",
              image |-> resize_image_if_needed(image)] >>
     ELSE <<>>)
    \o << [fn |-> "extract_text_with_positions", image |-> image] >>

\* The collaborator calls of process_image, in order
ProcessImageCalls(image, enhance_quality) ==
    (IF enhance_quality
     THEN << [fn |-> "enhance_image_quality", image |-> image],
             [fn |-> "resize_image_if_needed",
              image |-> enhance_image_quality(image)] >>
     ELSE <<>>)
    \o << [fn |-> "extract_text_with_positions",
           image |-> PreparedImage(image, enhance_quality)] >>

\* The reconstruction calls process_image makes once the OCR engine has
\* returned blocks, in order: none when blocks is empty.
ReconstructionCalls(blocks, detect_tables) ==
    IF blocks = <<>> THEN <<>>
    ELSE << [fn |-> "_format_text_structure", text_blocks |-> blocks] >>
         \o (IF detect_tables
             THEN << [fn |-> "_detect_tables", text_blocks |-> blocks] >>
             ELSE <<>>)

-----------------------------------------------------------------------------
(* Fragments *)

Fragment(text, x, y, c) ==
    [text |-> text, x_center |-> x, y_center |-> y, confidence |-> c]

\* The images a user may upload: a small one and one that exceeds max_dimension.
UploadedImages ==
    { [width |-> 800, height |-> 600, mode |-> "RGB", enhanced |-> FALSE],
      [width |-> 3000, height |-> 1500, mode |-> "L", enhanced |-> FALSE] }

\* Every sequence over S of length at most n.
SeqsUpTo(S, n) == UNION {[1..k -> S] : k \in 0..n}

-----------------------------------------------------------------------------
(* Paragraph reconstruction on its own *)

MaxParaBlocks == 4

ParaTexts == {<<>>, <<"a">>, <<"b", " ", "\n", "c">>}

ParaYs == {10, 15, 45, 50}

ParaFragments == {Fragment(t, 5, y, 90) : t \in ParaTexts, y \in ParaYs}

InitParagraphs ==
    /\ pc = "start"
    /\ args = None
    /\ raised = "none"
    /\ text_blocks \in SeqsUpTo(ParaFragments, MaxParaBlocks)
    /\ formatted_text = <<>>
    /\ rows = <<>>
    /\ tables = <<>>
    /\ doc = <<>>
    /\ ocr_engine = None
    /\ ocr = None
    /\ calls = <<>>
    /\ result = None

CallFormatTextStructure ==
    /\ pc = "start"
    /\ formatted_text' = FormatTextStructure(text_blocks)
    /\ pc' = "formatted"
    /\ raised' = "none"
    /\ UNCHANGED <<args, text_blocks, rows, tables, doc, ocr_engine, ocr, calls,
                   result>>

NextParagraphs == CallFormatTextStructure

SpecParagraphs == InitParagraphs /\ [][NextParagraphs]_vars

-----------------------------------------------------------------------------
(* The paragraph text handed to the renderer *)

MaxRenderBlocks == 4

RenderTexts == {<<"a">>, <<"A">>, <<"b", " ", "\n", "c">>}

RenderYs == {10, 15, 50}

RenderFragments == {Fragment(t, 5, y, 90) : t \in RenderTexts, y \in RenderYs}

InitRender ==
    /\ pc = "start"
    /\ args = None
    /\ raised = "none"
    /\ text_blocks \in SeqsUpTo(RenderFragments, MaxRenderBlocks)
    /\ formatted_text = <<>>
    /\ rows = <<>>
    /\ tables = <<>>
    /\ doc = NewDocument
    /\ ocr_engine = None
    /\ ocr = None
    /\ calls = <<>>
    /\ result = None

\* generator.add_extracted_text(text_content) on a new generator, with the
\* text _format_text_structure returned.
CallAddExtractedText ==
    /\ pc = "formatted"
    /\ doc' = add_extracted_text(NewDocument, formatted_text)
    /\ pc' = "text_added"
    /\ UNCHANGED <<args, raised, text_blocks, formatted_text, rows, tables,
                   ocr_engine, ocr, calls, result>>

NextRender == CallFormatTextStructure \/ CallAddExtractedText

SpecRender == InitRender /\ [][NextRender]_vars

-----------------------------------------------------------------------------
(* resize_image_if_needed on its own, applied once and then to its own result *)

ResizeDimensions == {1, 2, 1000, 2000, 2001, 3000, 4001}

ResizeImages ==
    [width : ResizeDimensions, height : ResizeDimensions, mode : {"RGB", "L"},
     enhanced : {FALSE}]

InitResize ==
    /\ pc = "start"
    /\ args \in [image : ResizeImages]
    /\ raised = "none"
    /\ text_blocks = <<>>
    /\ formatted_text = <<>>
    /\ rows = <<>>
    /\ tables = <<>>
    /\ doc = <<>>
    /\ ocr_engine = None
    /\ ocr = None
    /\ calls = <<>>
    /\ result = None

\* What image.resize can do with the size it is given: for a size with a
\* zero in it the imaging library either raises ValueError or makes the
\* image of that size, depending on its version.
ResizeOutcomes(resized) ==
    IF resized.width < 1 \/ resized.height < 1
    THEN {"ValueError", "none"}
    ELSE {"none"}

\* image = resize_image_if_needed(image), on the image given and then on the
\* image the first call returned.
CallResizeImageIfNeeded ==
    /\ pc \in {"start", "resized"}
    /\ LET image == IF pc = "start" THEN args.image ELSE result[1]
           resized == resize_image_if_needed(image)
       IN  \E outcome \in ResizeOutcomes(resized) :
              /\ raised' = outcome
              /\ IF outcome = "none"
                 THEN /\ result' = Some(resized)
                      /\ calls' = Append(calls,
                                      [fn |-> "resize_image_if_needed",
                                       image |-> image,
                                       returned |-> resized])
                      /\ pc' = IF pc = "start" THEN "resized"
                               ELSE "resized_again"
                 ELSE /\ pc' = "failed"
                      /\ UNCHANGED <<result, calls>>
    /\ UNCHANGED <<args, text_blocks, formatted_text, rows, tables, doc,
                   ocr_engine, ocr>>

NextResize == CallResizeImageIfNeeded

SpecResize == InitResize /\ [][NextResize]_vars

-----------------------------------------------------------------------------
(* Table reconstruction on its own *)

MaxTableBlocks == 5

TableFragments ==
    { Fragment(<<"a">>, 5, 10, 90),
      Fragment(<<"b">>, 50, 10, 90),
      Fragment(<<"c", " ", " ", "d">>, 5, 25, 90),
      Fragment(<<"e">>, 50, 25, 90),
      Fragment(<<"g">>, 50, 30, 90),
      Fragment(<<"h">>, 5, 40, 90),
      Fragment(<<"i", "\n", "j">>, 50, 40, 90) }

InitTables ==
    /\ pc = "start"
    /\ args = None
    /\ raised = "none"
    /\ text_blocks \in SeqsUpTo(TableFragments, MaxTableBlocks)
    /\ formatted_text = <<>>
    /\ rows = <<>>
    /\ tables = <<>>
    /\ doc = <<>>
    /\ ocr_engine = None
    /\ ocr = None
    /\ calls = <<>>
    /\ result = None

CallDetectTables ==
    /\ pc = "start"
    /\ rows' = ClusterRows(text_blocks)
    /\ tables' = DetectTables(text_blocks)
    /\ pc' = "detected"
    /\ raised' = "none"
    /\ UNCHANGED <<args, text_blocks, formatted_text, doc, ocr_engine, ocr, calls,
                   result>>

NextTables == CallDetectTables

SpecTables == InitTables /\ [][NextTables]_vars

-----------------------------------------------------------------------------
(* The reconstruction components and the document generator, called directly *)

MaxConfBlocks == 3

ConfValues == {30, 50, 60, 80, 90}

ConfFragments == {Fragment(<<"a">>, 5, 10, c) : c \in ConfValues}

\* A value of _detect_tables: two rows of two cells.
SampleTables ==
    << << <<"a">>, <<"b", " ", "c">> >>, << <<"d">>, <<"e">> >> >>

InitComponents ==
    /\ pc = "start"
    /\ args = None
    /\ raised = "none"
    /\ text_blocks \in SeqsUpTo(ConfFragments, MaxConfBlocks)
    /\ formatted_text = <<>>
    /\ rows = <<>>
    /\ tables = <<>>
    /\ doc = <<>>
    /\ ocr_engine = None
    /\ ocr = None
    /\ calls = <<>>
    /\ result = None

\* add_confidence_scores on a new WordDocumentGenerator
CallAddConfidenceScores ==
    /\ pc = "start"
    /\ LET r == add_confidence_scores(NewDocument, text_blocks)
       IN  doc' = r.doc /\ raised' = r.raised
    /\ pc' = "confidence_added"
    /\ UNCHANGED <<args, text_blocks, formatted_text, rows, tables, ocr_engine,
                   ocr, calls, result>>

\* create_complete_document on a new WordDocumentGenerator
CallCreateCompleteDocument ==
    /\ pc = "start"
    /\ \E text_content \in {<<>>, FormatTextStructure(text_blocks)},
          tbls \in {<<>>, SampleTables},
          original_image \in {None} \cup {Some(img) : img \in UploadedImages},
          blocks \in {None, text_blocks},
          include_stats \in BOOLEAN :
            /\ args' = [text_content |-> text_content, tables |-> tbls,
                        original_image |-> original_image,
                        text_blocks |-> blocks,
                        include_stats |-> include_stats]
            /\ LET r == create_complete_document(text_content, tbls,
                            original_image, blocks, include_stats)
               IN  doc' = r.doc /\ raised' = r.raised
    /\ pc' = "document_created"
    /\ UNCHANGED <<text_blocks, formatted_text, rows, tables, ocr_engine, ocr,
                   calls, result>>

NextComponents ==
    \/ CallFormatTextStructure
    \/ CallDetectTables
    \/ CallAddConfidenceScores
    \/ CallCreateCompleteDocument

SpecComponents == InitComponents /\ [][NextComponents]_vars

-----------------------------------------------------------------------------
(* One conversion: a converter is constructed and processes one image *)

MaxOcrResults == 4

\* What the recogniser may report: four texts at the corners of a 2 x 2 grid
\* (centres x 5 / 50, y 10 / 50), a blank text, and a text at score 0.30.
Detections ==
    { [text |-> <<"a">>, left |-> 0, top |-> 5, width |-> 10, height |-> 10,
       conf |-> 90],
      [text |-> <<" ", "b", " ", " ", "c">>, left |-> 45, top |-> 5, width |-> 10,
       height |-> 10, conf |-> 90],
      [text |-> <<"d">>, left |-> 0, top |-> 45, width |-> 10, height |-> 10,
       conf |-> 60],
      [text |-> <<"e">>, left |-> 45, top |-> 45, width |-> 10, height |-> 10,
       conf |-> 31],
      [text |-> <<" ">>, left |-> 0, top |-> 5, width |-> 10, height |-> 10,
       conf |-> 90],
      [text |-> <<"f">>, left |-> 45, top |-> 45, width |-> 10, height |-> 10,
       conf |-> 30] }

EngineTypes ==
    { Chars_easyocr, Chars_tesseract,
      <<"T", "e", "s", "s", "e", "r", "a", "c", "t">>,
      <<"o", "c", "r">> }

Environments ==
    [tesseract : BOOLEAN, easyocr : BOOLEAN, reader_init : {"ok", "fails"}]

Init ==
    /\ pc = "start"
    /\ args = None
    /\ raised = "none"
    /\ text_blocks = <<>>
    /\ formatted_text = <<>>
    /\ rows = <<>>
    /\ tables = <<>>
    /\ doc = <<>>
    /\ ocr_engine = None
    /\ ocr = None
    /\ calls = <<>>
    /\ result = None

\* converter = ImageToWordConverter(ocr_engine_type)
Construct ==
    /\ pc = "start"
    /\ \E ocr_engine_type \in EngineTypes, env \in Environments :
          LET r == NewConverter(ocr_engine_type, env)
          IN  /\ ocr_engine' = r.engine
              /\ raised' = r.raised
              /\ pc' = IF r.raised = "none" THEN "constructed" ELSE "failed"
    /\ UNCHANGED <<args, text_blocks, formatted_text, rows, tables, doc, ocr,
                   calls, result>>

\* result = converter.process_image(image, enhance_quality, detect_tables)
\* text_blocks is what the engine returned.
CallProcessImage ==
    /\ pc = "constructed"
    /\ \E image \in UploadedImages,
          enhance_quality \in BOOLEAN,
          detect_tables \in BOOLEAN,
          outcome \in {"ok", "raises"},
          results \in SeqsUpTo(Detections, MaxOcrResults) :
            /\ outcome = "raises" => results = <<>>
            /\ LET returned ==
                       extract_text_with_positions(ocr_engine[1], outcome, results)
               IN  /\ args' = [image |-> image,
                               enhance_quality |-> enhance_quality,
                               detect_tables |-> detect_tables]
                   /\ calls' = ProcessImageCalls(image, enhance_quality)
                                \o ReconstructionCalls(returned, detect_tables)
                   /\ ocr' = Some([outcome |-> outcome, results |-> results,
                                   returned |-> returned])
                   /\ text_blocks' = returned
                   /\ result' = Some(ProcessImageResult(returned, detect_tables))
    /\ raised' = "none"
    /\ pc' = "processed"
    /\ UNCHANGED <<formatted_text, rows, tables, doc, ocr_engine>>

Next == Construct \/ CallProcessImage

Spec == Init /\ [][Next]_vars

-----------------------------------------------------------------------------
(* The two reconstruction methods called repeatedly, in any order, on one   *)
(* list.  A call is modelled with its effect on the list object it is given: *)
(* `returned` is the value returned and `text_blocks` the list as it is once *)
(* the call has ended.  Here `calls` records every call made so far.         *)

RECURSIVE Flatten(_)
Flatten(rs) == IF rs = <<>> THEN <<>> ELSE Head(rs) \o Flatten(Tail(rs))

\* _format_text_structure reads text_blocks and builds new strings and a new
\* list; it assigns to no attribute of self and to no element of text_blocks.
_format_text_structure(blocks) ==
    [returned |-> FormatTextStructure(blocks), text_blocks |-> blocks]

\* A _detect_tables that writes the sorted rows back into the list it was given.
DetectTablesSortingInPlace(blocks) ==
    [returned |-> DetectTables(blocks), text_blocks |-> Flatten(ClusterRows(blocks))]

\* _detect_tables appends the fragments to new lists and sorts with sorted(),
\* which returns a new list; text_blocks itself is only iterated.
_detect_tables(blocks) ==
    [returned |-> DetectTables(blocks), text_blocks |-> blocks]

MaxRepeatBlocks == 4

MaxCalls == 3

\* Two rows of two fragments; within the first row the right-hand fragment
\* comes first, and one text has leading, trailing and repeated whitespace.
RepeatFragments ==
    { Fragment(<<"a">>, 50, 10, 90),
      Fragment(<<" ", "b", " ", " ", "c", "\n">>, 5, 10, 90),
      Fragment(<<"d">>, 5, 50, 90),
      Fragment(<<"e">>, 50, 50, 90),
      Fragment(<<"f", "\t", "g">>, 5, 30, 90) }

InitRepeat ==
    /\ pc = "start"
    /\ args = None
    /\ raised = "none"
    /\ text_blocks \in SeqsUpTo(RepeatFragments, MaxRepeatBlocks)
    /\ formatted_text = <<>>
    /\ rows = <<>>
    /\ tables = <<>>
    /\ doc = <<>>
    /\ ocr_engine = Some(TesseractEngine)
    /\ ocr = None
    /\ calls = <<>>
    /\ result = None

\* self._format_text_structure(text_blocks), once more
RepeatFormatTextStructure ==
    /\ Len(calls) < MaxCalls
    /\ LET r == _format_text_structure(text_blocks)
       IN  /\ formatted_text' = r.returned
           /\ text_blocks' = r.text_blocks
           /\ calls' = Append(calls, [fn |-> "_format_text_structure",
                                      returned |-> r.returned])
    /\ pc' = "formatted"
    /\ raised' = "none"
    /\ UNCHANGED <<args, rows, tables, doc, ocr_engine, ocr, result>>

\* self._detect_tables(text_blocks), once more
RepeatDetectTables ==
    /\ Len(calls) < MaxCalls
    /\ LET r == _detect_tables(text_blocks)
       IN  /\ tables' = r.returned
           /\ text_blocks' = r.text_blocks
           /\ calls' = Append(calls, [fn |-> "_detect_tables",
                                      returned |-> r.returned])
    /\ rows' = ClusterRows(text_blocks)
    /\ pc' = "detected"
    /\ raised' = "none"
    /\ UNCHANGED <<args, formatted_text, doc, ocr_engine, ocr, result>>

NextRepeat == RepeatFormatTextStructure \/ RepeatDetectTables

SpecRepeat == InitRepeat /\ [][NextRepeat]_vars

-----------------------------------------------------------------------------
(* The OCR engines called directly *)

MaxAttemptResults == 1

Engines ==
    { TesseractEngine, EasyOCREngine("ok"), EasyOCREngine("fails"),
      HandwritingOCREngine("ok"), HandwritingOCREngine("fails") }

\* What the recogniser may report for handwriting: the text "a" twice at 1.00
\* in different places and once, unstripped, at 0.60; a text just above the
\* floor of 0.05, one at the floor, and a blank one.
HandwritingDetections ==
    { [text |-> <<"a">>, left |-> 0, top |-> 5, width |-> 10, height |-> 10,
       conf |-> 100],
      [text |-> <<"a">>, left |-> 45, top |-> 5, width |-> 10, height |-> 10,
       conf |-> 100],
      [text |-> <<" ", "a">>, left |-> 0, top |-> 45, width |-> 10,
       height |-> 10, conf |-> 60],
      [text |-> <<"b">>, left |-> 45, top |-> 45, width |-> 10, height |-> 10,
       conf |-> 6],
      [text |-> <<"c">>, left |-> 0, top |-> 5, width |-> 10, height |-> 10,
       conf |-> 5],
      [text |-> <<" ">>, left |-> 0, top |-> 5, width |-> 10, height |-> 10,
       conf |-> 90] }

\* An attempt whose image variant was built: the recogniser returns or raises.
RunAttempts ==
    { [prepared |-> "ok", outcome |-> "ok", results |-> r] :
          r \in SeqsUpTo(HandwritingDetections, MaxAttemptResults) }
    \cup { [prepared |-> "ok", outcome |-> "raises", results |-> <<>>] }

\* An attempt skipped because building its image variant raised.
SkippedAttempt == [prepared |-> "raises", outcome |-> "skipped", results |-> <<>>]

InitEngines ==
    /\ pc = "start"
    /\ args = None
    /\ raised = "none"
    /\ text_blocks = <<>>
    /\ formatted_text = <<>>
    /\ rows = <<>>
    /\ tables = <<>>
    /\ doc = <<>>
    /\ ocr_engine \in {Some(e) : e \in Engines}
    /\ ocr = None
    /\ calls = <<>>
    /\ result = None

\* text_blocks = engine.extract_text_with_positions(image), for the two
\* engines of ocr_engine.py
CallExtractTextWithPositions ==
    /\ pc = "start"
    /\ ocr_engine[1].class \in {"TesseractEngine", "EasyOCREngine"}
    /\ \E outcome \in {"ok", "raises"},
          results \in SeqsUpTo(Detections, MaxOcrResults) :
            /\ outcome = "raises" => results = <<>>
            /\ LET returned ==
                       extract_text_with_positions(ocr_engine[1], outcome, results)
               IN  /\ ocr' = Some([outcome |-> outcome, results |-> results,
                                   returned |-> returned])
                   /\ text_blocks' = returned
    /\ raised' = "none"
    /\ pc' = "extracted"
    /\ UNCHANGED <<args, formatted_text, rows, tables, doc, ocr_engine, calls,
                   result>>

\* text_blocks = engine.extract_handwritten_text(image)
CallExtractHandwrittenText ==
    /\ pc = "start"
    /\ ocr_engine[1].class = "HandwritingOCREngine"
    /\ \E outcome \in {"ok", "raises"},
          results \in SeqsUpTo(HandwritingDetections, MaxOcrResults) :
            /\ outcome = "raises" => results = <<>>
            /\ LET returned ==
                       extract_handwritten_text(ocr_engine[1], outcome, results)
               IN  /\ ocr' = Some([outcome |-> outcome, results |-> results,
                                   returned |-> returned])
                   /\ text_blocks' = returned
    /\ raised' = "none"
    /\ pc' = "handwritten"
    /\ UNCHANGED <<args, formatted_text, rows, tables, doc, ocr_engine, calls,
                   result>>

\* text_blocks = engine.extract_with_multiple_attempts(image)
CallExtractWithMultipleAttempts ==
    /\ pc = "start"
    /\ ocr_engine[1].class = "HandwritingOCREngine"
    /\ \E a1 \in RunAttempts,
          a2 \in RunAttempts \cup {SkippedAttempt},
          a3 \in RunAttempts \cup {SkippedAttempt} :
            LET attempts == <<a1, a2, a3>>
                returned == extract_with_multiple_attempts(ocr_engine[1], attempts)
            IN  /\ ocr' = Some([attempts |-> attempts,
                                all_results |-> AllResults(ocr_engine[1], attempts),
                                returned |-> returned])
                /\ text_blocks' = returned
    /\ raised' = "none"
    /\ pc' = "attempts"
    /\ UNCHANGED <<args, formatted_text, rows, tables, doc, ocr_engine, calls,
                   result>>

NextEngines ==
    \/ CallExtractTextWithPositions
    \/ CallExtractHandwrittenText
    \/ CallExtractWithMultipleAttempts

SpecEngines == InitEngines /\ [][NextEngines]_vars

-----------------------------------------------------------------------------
(* One run of main, the Streamlit script.  pc is the place the run has       *)
(* reached, args holds the environment and the widget values read so far,    *)
(* and calls records the calls the run has made, in order.                   *)

MAX_FILE_SIZE_MB == 10

ALLOWED_EXTENSIONS == <<"png", "jpg", "jpeg", "bmp", "tiff", "webp">>

\* The local allowed_types of validate_image
allowed_types ==
    {"image/png", "image/jpeg", "image/jpg", "image/bmp", "image/tiff"}

\* uploaded_file.type: the MIME type the uploader reports for a file of the
\* given extension.
MimeType(ext) ==
    CASE ext = "png" -> "image/png"
      [] ext \in {"jpg", "jpeg"} -> "image/jpeg"
      [] ext = "bmp" -> "image/bmp"
      [] ext = "tiff" -> "image/tiff"
      [] ext = "webp" -> "image/webp"
      [] OTHER -> "application/octet-stream"

\* utils.validate_image; well_formed says whether Image.open and verify succeed.
validate_image(uploaded_file) ==
    IF uploaded_file = None
    THEN [is_valid |-> FALSE, message |-> "No file uploaded"]
    ELSE IF uploaded_file[1].size > 10 * 1024 * 1024
    THEN [is_valid |-> FALSE, message |-> "File size exceeds 10MB limit"]
    ELSE IF uploaded_file[1].type \notin allowed_types
    THEN [is_valid |-> FALSE, message |-> "Unsupported file type"]
    ELSE IF uploaded_file[1].well_formed
    THEN [is_valid |-> TRUE, message |-> "Valid image file"]
    ELSE [is_valid |-> FALSE, message |-> "Invalid image file"]

\* The files the uploader offers (type=ALLOWED_EXTENSIONS): one small, one of
\* exactly 10 MB and one a byte larger, well formed or not.
Uploads ==
    { [ext |-> ALLOWED_EXTENSIONS[e], type |-> MimeType(ALLOWED_EXTENSIONS[e]),
       size |-> sz, well_formed |-> w, image |-> img] :
          e \in 1..Len(ALLOWED_EXTENSIONS),
          sz \in {1024, 10 * 1024 * 1024, 10 * 1024 * 1024 + 1},
          w \in BOOLEAN,
          img \in UploadedImages }

\* What the recogniser reports in a run of main: nothing, or one piece of text.
MainRecognised == {<<>>} \cup {<<d>> : d \in Detections}

Call(fn, returned) == [fn |-> fn, returned |-> returned]

\* The engine name as the str handed to create_engine.
Chars(name) == IF name = "tesseract" THEN Chars_tesseract ELSE Chars_easyocr

\* st.sidebar.selectbox(options=available_engines): one of the options, None
\* when there is none.
SelectboxValues(options) ==
    IF options = <<>> THEN {None}
    ELSE {Some(options[k]) : k \in 1..Len(options)}

\* A main that goes on without an engine.
EngineCheckNeverEnds(available_engines) == FALSE

\* `if not available_engines:` -- the run reports the error and returns.
EngineCheckEnds(available_engines) == available_engines = <<>>

\* A main that goes on with an invalid upload.
ValidationNeverEnds(is_valid) == FALSE

\* `if not is_valid:` -- the run reports the error and returns.
ValidationEnds(is_valid) == ~is_valid

InitMain ==
    /\ pc = "start"
    /\ args = None
    /\ raised = "none"
    /\ text_blocks = <<>>
    /\ formatted_text = <<>>
    /\ rows = <<>>
    /\ tables = <<>>
    /\ doc = <<>>
    /\ ocr_engine = None
    /\ ocr = None
    /\ calls = <<>>
    /\ result = None

\* main up to the sidebar: the engine check, the selectbox and the checkboxes
MainCheckEngines ==
    /\ pc = "start"
    /\ \E env \in Environments :
          LET available_engines == get_available_engines(env)
              checked == <<Call("get_available_engines", available_engines)>>
          IN  IF EngineCheckEnds(available_engines)
              THEN /\ args' = [env |-> env]
                   /\ calls' = Append(checked, Call("st.error", None))
                   /\ pc' = "ended"
              ELSE \E selected_engine \in SelectboxValues(available_engines),
                      enhance_quality \in BOOLEAN,
                      detect_tables \in BOOLEAN,
                      include_original_image \in BOOLEAN,
                      include_confidence \in BOOLEAN :
                        /\ args' = [env |-> env,
                                    selected_engine |-> selected_engine,
                                    enhance_quality |-> enhance_quality,
                                    detect_tables |-> detect_tables,
                                    include_original_image |->
                                        include_original_image,
                                    include_confidence |-> include_confidence,
                                    uploaded_file |-> None]
                        /\ calls' = checked
                        /\ pc' = "configured"
    /\ UNCHANGED <<raised, text_blocks, formatted_text, rows, tables, doc,
                   ocr_engine, ocr, result>>

\* main, the first column: the uploader, validate_image and Image.open.
\* Without a file the second column shows nothing and the run ends.
MainUpload ==
    /\ pc = "configured"
    /\ \E uploaded_file \in {None} \cup {Some(f) : f \in Uploads} :
          /\ args' = [args EXCEPT !.uploaded_file = uploaded_file]
          /\ IF uploaded_file = None
             THEN calls' = calls /\ pc' = "ended"
             ELSE LET v == validate_image(uploaded_file)
                      validated == Append(calls, Call("validate_image", v))
                  IN  IF ValidationEnds(v.is_valid)
                      THEN /\ calls' = Append(validated, Call("st.error", None))
                           /\ pc' = "ended"
                      ELSE /\ calls' = Append(validated, Call("Image.open", None))
                           /\ pc' = "validated"
    /\ UNCHANGED <<raised, text_blocks, formatted_text, rows, tables, doc,
                   ocr_engine, ocr, result>>

\* main, the second column with a file: the run ends unless the button was
\* pressed.
MainNoConvert ==
    /\ pc = "validated"
    /\ pc' = "ended"
    /\ UNCHANGED <<args, raised, text_blocks, formatted_text, rows, tables, doc,
                   ocr_engine, ocr, calls, result>>

\* st.warning(message)
Warning(message) == [fn |-> "st.warning", returned |-> None, message |-> message]

\* Variant: the document is created whatever result['success'] says.
ResultCallsWithoutSuccessTest(res, created) ==
    IF created.raised # "none"
    THEN <<Call("create_word_document", None), Call("st.error", None)>>
    ELSE <<Call("create_word_document", None),
           Call("st.download_button", None),
           Call("st.success", None)>>

\* main once process_image has returned res: the calls up to the end of the
\* run.  created is what create_word_document does with the result.
ResultCalls(res, created) ==
    IF ~res.success
    THEN <<Warning(res.error), Call("st.info", None)>>
    ELSE IF created.raised # "none"
    THEN <<Call("create_word_document", None), Call("st.error", None)>>
    ELSE <<Call("create_word_document", None),
           Call("st.download_button", None),
           Call("st.success", None)>>

\* main, the second column once the button was pressed: the converter is
\* constructed, the image processed and, when that succeeded, the document
\* created; an exception is caught and reported.
MainConvert ==
    /\ pc = "validated"
    /\ \E outcome \in {"ok", "raises"}, results \in MainRecognised :
          /\ outcome = "raises" => results = <<>>
          /\ LET image == args.uploaded_file[1].image
                 converter ==
                     IF args.selected_engine = None
                     THEN [engine |-> None, raised |-> "AttributeError"]
                     ELSE NewConverter(Chars(args.selected_engine[1]), args.env)
                 constructed ==
                     Append(calls, Call("ImageToWordConverter", None))
             IN  IF converter.raised # "none"
                 THEN /\ calls' = Append(constructed, Call("st.error", None))
                      /\ raised' = "none"
                      /\ UNCHANGED <<text_blocks, doc, ocr_engine, ocr, result>>
                 ELSE
                 LET returned == extract_text_with_positions(
                                     converter.engine[1], outcome, results)
                     res == ProcessImageResult(returned, args.detect_tables)
                     processed == Append(constructed, Call("process_image", None))
                     created ==
                         create_complete_document(res.formatted_text, res.tables,
                             IF args.include_original_image THEN Some(image)
                             ELSE None,
                             IF args.include_confidence THEN res.text_blocks
                             ELSE None,
                             TRUE)
                 IN  /\ ocr_engine' = converter.engine
                     /\ ocr' = Some([outcome |-> outcome, results |-> results,
                                     returned |-> returned])
                     /\ text_blocks' = returned
                     /\ result' = Some(res)
                     /\ raised' = "none"
                     /\ calls' = processed \o ResultCalls(res, created)
                     /\ doc' = IF res.success /\ created.raised = "none"
                               THEN created.doc ELSE doc
    /\ pc' = "ended"
    /\ UNCHANGED <<args, formatted_text, rows, tables>>

NextMain == MainCheckEngines \/ MainUpload \/ MainNoConvert \/ MainConvert

SpecMain == InitMain /\ [][NextMain]_vars

-----------------------------------------------------------------------------
(* get_best_ocr_engine called directly, and the engine it returned used *)

InitBest ==
    /\ pc = "start"
    /\ args = None
    /\ raised = "none"
    /\ text_blocks = <<>>
    /\ formatted_text = <<>>
    /\ rows = <<>>
    /\ tables = <<>>
    /\ doc = <<>>
    /\ ocr_engine = None
    /\ ocr = None
    /\ calls = <<>>
    /\ result = None

\* engine = get_best_ocr_engine()
CallGetBestOcrEngine ==
    /\ pc = "start"
    /\ \E env \in Environments :
          LET r == get_best_ocr_engine(env)
          IN  /\ args' = [env |-> env]
              /\ ocr_engine' = r.engine
              /\ raised' = r.raised
              /\ pc' = IF r.raised = "none" THEN "best" ELSE "failed"
    /\ UNCHANGED <<text_blocks, formatted_text, rows, tables, doc, ocr, calls,
                   result>>

\* text_blocks = engine.extract_text_with_positions(image), on that engine
BestEngineExtractTextWithPositions ==
    /\ pc = "best"
    /\ \E outcome \in {"ok", "raises"},
          results \in SeqsUpTo(Detections, MaxOcrResults) :
            /\ outcome = "raises" => results = <<>>
            /\ LET returned ==
                       extract_text_with_positions(ocr_engine[1], outcome, results)
               IN  /\ ocr' = Some([outcome |-> outcome, results |-> results,
                                   returned |-> returned])
                   /\ text_blocks' = returned
    /\ raised' = "none"
    /\ pc' = "best_extracted"
    /\ UNCHANGED <<args, formatted_text, rows, tables, doc, ocr_engine, calls,
                   result>>

NextBest == CallGetBestOcrEngine \/ BestEngineExtractTextWithPositions

SpecBest == InitBest /\ [][NextBest]_vars

-----------------------------------------------------------------------------
(* One converter used for several calls.  `calls` records every call made   *)
(* on the converter with its input and the value it returned; `doc` is the   *)
(* document of the generator used last and `result` the last result.         *)

MaxSessionCalls == 3

\* What the recogniser reports in these calls: nothing, one piece of text, or
\* four pieces at the corners of a grid.
SessionRecognised ==
    { <<>>,
      << [text |-> <<"a">>, left |-> 0, top |-> 5, width |-> 10, height |-> 10,
          conf |-> 90] >>,
      << [text |-> <<"a">>, left |-> 0, top |-> 5, width |-> 10, height |-> 10,
          conf |-> 90],
         [text |-> <<" ", "b", " ", " ", "c">>, left |-> 45, top |-> 5,
          width |-> 10, height |-> 10, conf |-> 90],
         [text |-> <<"d">>, left |-> 0, top |-> 45, width |-> 10, height |-> 10,
          conf |-> 60],
         [text |-> <<"e">>, left |-> 45, top |-> 45, width |-> 10, height |-> 10,
          conf |-> 31] >> }

SessionImage == [width |-> 800, height |-> 600, mode |-> "RGB", enhanced |-> FALSE]

\* A create_word_document that keeps using the generator of the call before.
CreateWordDocumentReusingGenerator(text_content, tbls, original_image, blocks) ==
    LET r == create_complete_document(text_content, tbls, original_image,
                                      blocks, TRUE)
    IN  [doc |-> doc \o r.doc, raised |-> r.raised]

\* ImageToWordConverter.create_word_document: a new WordDocumentGenerator for
\* every call, include_stats left at its default.
create_word_document(text_content, tbls, original_image, blocks) ==
    create_complete_document(text_content, tbls, original_image, blocks, TRUE)

\* result = converter.process_image(image, True, detect_tables), once more
SessionProcessImage ==
    /\ pc \in {"constructed", "session"}
    /\ Len(calls) < MaxSessionCalls
    /\ \E detect_tables \in BOOLEAN, results \in SessionRecognised :
          LET returned == extract_text_with_positions(ocr_engine[1], "ok", results)
              res == ProcessImageResult(returned, detect_tables)
          IN  /\ args' = [image |-> SessionImage, enhance_quality |-> TRUE,
                          detect_tables |-> detect_tables]
              /\ ocr' = Some([outcome |-> "ok", results |-> results,
                              returned |-> returned])
              /\ text_blocks' = returned
              /\ result' = Some(res)
              /\ calls' = Append(calls,
                     [fn |-> "process_image",
                      input |-> [detect_tables |-> detect_tables,
                                 results |-> results],
                      returned |-> res])
    /\ raised' = "none"
    /\ pc' = "session"
    /\ UNCHANGED <<formatted_text, rows, tables, doc, ocr_engine>>

\* converter.create_word_document(...) on the last result, with or without
\* the image and the fragments, once more
SessionCreateWordDocument ==
    /\ pc = "session"
    /\ Len(calls) < MaxSessionCalls
    /\ \E original_image \in {None, Some(SessionImage)},
          blocks \in {None, result[1].text_blocks} :
          LET input == [text_content |-> result[1].formatted_text,
                        tables |-> result[1].tables,
                        original_image |-> original_image,
                        text_blocks |-> blocks]
              r == create_word_document(input.text_content, input.tables,
                                        original_image, blocks)
          IN  /\ doc' = r.doc
              /\ raised' = r.raised
              /\ calls' = Append(calls, [fn |-> "create_word_document",
                                         input |-> input,
                                         returned |-> r.doc])
    /\ pc' = "session"
    /\ UNCHANGED <<args, text_blocks, formatted_text, rows, tables, ocr_engine,
                   ocr, result>>

NextSession == Construct \/ SessionProcessImage \/ SessionCreateWordDocument

SpecSession == Init /\ [][NextSession]_vars

-----------------------------------------------------------------------------
(* Properties of the paragraph reconstruction (SpecParagraphs) *)

CleanedNonEmpty(blocks) ==
    \A i \in 1..Len(blocks) : clean_text(blocks[i].text) # <<>>

\* The positions i whose fragment lies more than 30 away from fragment i-1.
GapsOver30(blocks) ==
    {i \in 2..Len(blocks) :
        Abs(blocks[i].y_center - blocks[i - 1].y_center) > 30}

\* The cleaned texts from position i on, each preceded by a blank line when its
\* gap to the previous fragment exceeds 30 and by one space otherwise.
RECURSIVE ExpectedTextFrom(_, _)
ExpectedTextFrom(blocks, i) ==
    IF i > Len(blocks) THEN <<>>
    ELSE (IF i = 1 THEN <<>>
          ELSE IF i \in GapsOver30(blocks) THEN <<"\n", "\n">> ELSE <<" ">>)
         \o clean_text(blocks[i].text) \o ExpectedTextFrom(blocks, i + 1)

YCenters(blocks) == [i \in 1..Len(blocks) |-> blocks[i].y_center]

\* C1: for a non-empty fragment list whose cleaned texts are all non-empty,
\* _format_text_structure puts a paragraph break between fragments i-1 and i
\* exactly when their y_centers differ by more than 30 (the previous fragment,
\* not the paragraph's first, is the reference), so the output has
\* 1 + (number of such pairs) paragraphs.
C1_ParagraphBreakIffGapOver30 ==
    (pc = "formatted" /\ text_blocks # <<>> /\ CleanedNonEmpty(text_blocks)) =>
        /\ formatted_text = ExpectedTextFrom(text_blocks, 1)
        /\ Len(SplitParagraphs(formatted_text))
               = 1 + Cardinality(GapsOver30(text_blocks))

\* Four fragments in the pattern of y_centers [10, 15, 50, 55]: two paragraphs
\* of two fragments each.
C1_Witness ==
    /\ pc = "formatted"
    /\ CleanedNonEmpty(text_blocks)
    /\ YCenters(text_blocks) = <<10, 15, 50, 45>>
    /\ Len(SplitParagraphs(formatted_text)) = 2
    /\ formatted_text = clean_text(text_blocks[1].text) \o <<" ">>
                            \o clean_text(text_blocks[2].text) \o <<"\n", "\n">>
                            \o clean_text(text_blocks[3].text) \o <<" ">>
                            \o clean_text(text_blocks[4].text)

\* The words of all fragments, in input order.
RECURSIVE AllWords(_)
AllWords(blocks) ==
    IF blocks = <<>> THEN <<>>
    ELSE Split(Head(blocks).text) \o AllWords(Tail(blocks))

\* C5 as stated: the output of _format_text_structure is a fixed point of
\* clean_text for every fragment sequence.
C5_Original_CleanTextFixedPoint ==
    pc = "formatted" => clean_text(formatted_text) = formatted_text

\* C5 as amended: clean_text of the output is the single-space join of all the
\* fragments' words; when the cleaned texts are all non-empty this is the output
\* itself exactly when no consecutive gap exceeds 30 (one paragraph), and with
\* two or more paragraphs clean_text turns every blank line into one space.
C5_CleanTextFixedPointOnlyForOneParagraph ==
    pc = "formatted" =>
        /\ clean_text(formatted_text) = Join(AllWords(text_blocks), <<" ">>)
        /\ CleanedNonEmpty(text_blocks) =>
              (clean_text(formatted_text) = formatted_text
                  <=> GapsOver30(text_blocks) = {})

C5_Witness ==
    /\ pc = "formatted"
    /\ CleanedNonEmpty(text_blocks)
    /\ Len(text_blocks) = 3
    /\ Cardinality(GapsOver30(text_blocks)) = 1
    /\ text_blocks[1].text = <<"b", " ", "\n", "c">>
    /\ clean_text(formatted_text) # formatted_text

-----------------------------------------------------------------------------
(* Properties of the table reconstruction (SpecTables) *)

RECURSIVE SumLen(_, _)
SumLen(rs, k) == IF k = 0 THEN 0 ELSE Len(rs[k]) + SumLen(rs, k - 1)

\* The clustered rows cut the input into consecutive segments: row k holds the
\* fragments at input positions SegFirst(rs, k) .. SegLast(rs, k).
SegFirst(rs, k) == 1 + SumLen(rs, k - 1)

SegLast(rs, k) == SumLen(rs, k)

Count(seq, e) == Cardinality({i \in 1..Len(seq) : seq[i] = e})

IsPermutation(a, b) ==
    /\ Len(a) = Len(b)
    /\ \A i \in 1..Len(a) : Count(a, a[i]) = Count(b, a[i])

RowIsSegment(blocks, rs, k) ==
    /\ SegLast(rs, k) <= Len(blocks)
    /\ IsPermutation(rs[k], SubSeq(blocks, SegFirst(rs, k), SegLast(rs, k)))

\* C2: a fragment joins the open row iff its y_center is strictly less than 20
\* away from the row's anchor, the y_center of the fragment that opened the row:
\* every fragment of a row is within less than 20 of the row's first fragment in
\* input order, and the fragment that opens the next row is 20 or more away
\* from that anchor.
C2_RowAnchoredOnFirstFragment ==
    pc = "detected" =>
        /\ SumLen(rows, Len(rows)) = Len(text_blocks)
        /\ \A k \in 1..Len(rows) :
              /\ Len(rows[k]) >= 1
              /\ RowIsSegment(text_blocks, rows, k)
              /\ \A i \in SegFirst(rows, k)..SegLast(rows, k) :
                    Abs(text_blocks[i].y_center
                        - text_blocks[SegFirst(rows, k)].y_center) < 20
              /\ k < Len(rows) =>
                    Abs(text_blocks[SegFirst(rows, k + 1)].y_center
                        - text_blocks[SegFirst(rows, k)].y_center) >= 20

\* The third fragment is exactly 20 from the anchor 10 of the open row and only
\* 5 from the fragment before it: it opens a new row.
C2_Witness ==
    /\ pc = "detected"
    /\ YCenters(text_blocks) = <<10, 25, 30>>
    /\ Len(rows) = 2
    /\ Len(rows[1]) = 2

\* One row whose second and third fragments are 30 apart from each other.
C2_WitnessSpread ==
    /\ pc = "detected"
    /\ YCenters(text_blocks) = <<25, 10, 40, 30>>
    /\ Len(rows) = 1

Qualifying(rs) == {k \in 1..Len(rs) : Len(rs[k]) >= 2}

\* C3: the value returned by _detect_tables is empty or has at least 2 rows of
\* at least 2 cells each: rows of one fragment are dropped, and fewer than 2
\* rows of 2 or more fragments give the empty list.
C3_TablesEmptyOrTwoByTwo ==
    pc = "detected" =>
        /\ tables = <<>> \/ (Len(tables) >= 2
                             /\ \A j \in 1..Len(tables) : Len(tables[j]) >= 2)
        /\ Cardinality(Qualifying(rows)) < 2 => tables = <<>>
        /\ Cardinality(Qualifying(rows)) >= 2 =>
              Len(tables) = Cardinality(Qualifying(rows))

\* Three fragments clustered into one row of 3 cells: the result is empty.
C3_Witness ==
    /\ pc = "detected"
    /\ Len(text_blocks) = 3
    /\ Len(rows) = 1
    /\ Len(rows[1]) = 3
    /\ tables = <<>>

\* A row of one fragment between two rows of two: it is dropped and the two
\* rows remain.
C3_WitnessDropped ==
    /\ pc = "detected"
    /\ Len(rows) = 3
    /\ Len(rows[2]) = 1
    /\ Len(tables) = 2

\* The rows of 2 or more fragments, in order.
RECURSIVE QualifyingRows(_)
QualifyingRows(rs) ==
    IF rs = <<>> THEN <<>>
    ELSE (IF Len(Head(rs)) >= 2 THEN <<Head(rs)>> ELSE <<>>)
             \o QualifyingRows(Tail(rs))

\* C4: every row of the result holds the cleaned texts of the fragments
\* clustered into that row, one cell per fragment, in non-decreasing x_center
\* order whatever their order in the input.
C4_CellsLeftToRight ==
    pc = "detected" =>
        /\ \A k \in 1..Len(rows) :
              /\ RowIsSegment(text_blocks, rows, k)
              /\ \A i \in 1..(Len(rows[k]) - 1) :
                    rows[k][i].x_center <= rows[k][i + 1].x_center
        /\ tables # <<>> =>
              /\ Len(tables) = Len(QualifyingRows(rows))
              /\ \A j \in 1..Len(tables) :
                    /\ Len(tables[j]) = Len(QualifyingRows(rows)[j])
                    /\ \A i \in 1..Len(tables[j]) :
                          tables[j][i]
                              = clean_text(QualifyingRows(rows)[j][i].text)

\* Rows at y=10 and y=40 with x_centers 5 and 50, given right to left.
C4_Witness ==
    /\ pc = "detected"
    /\ text_blocks = << Fragment(<<"b">>, 50, 10, 90),
                        Fragment(<<"a">>, 5, 10, 90),
                        Fragment(<<"i", "\n", "j">>, 50, 40, 90),
                        Fragment(<<"h">>, 5, 40, 90) >>
    /\ tables = << << <<"a">>, <<"b">> >>,
                   << <<"h">>, <<"i", " ", "j">> >> >>

-----------------------------------------------------------------------------
(* Properties of the confidence report and of the empty fragment list       *)
(* (SpecComponents)                                                         *)

\* add_confidence_scores has run on these fragments, directly or through
\* create_complete_document.
ConfidenceReportedOn(blocks) ==
    \/ pc = "confidence_added" /\ blocks = text_blocks
    \/ pc = "document_created" /\ args.include_stats /\ blocks = args.text_blocks

RECURSIVE TotalConfidence(_, _)
TotalConfidence(blocks, k) ==
    IF k = 0 THEN 0 ELSE blocks[k].confidence + TotalConfidence(blocks, k - 1)

ConfidenceHeading == Heading("Text Extraction Confidence", 1)

\* C9: for a non-empty fragment list the report counts every fragment in exactly
\* one bucket (high: confidence > 0.8, medium: 0.5 <= confidence <= 0.8, low:
\* confidence < 0.5), so the three counts add up to the number of fragments, and
\* the average shown is the sum of the confidences divided by their number (to
\* the one decimal of a percent that is displayed).
C9_ConfidenceBucketsPartition ==
    LET blocks == text_blocks
    IN  (ConfidenceReportedOn(blocks) /\ blocks # <<>>) =>
            /\ raised = "none"
            /\ Len(doc) >= 3
            /\ doc[Len(doc) - 2] = ConfidenceHeading
            /\ LET n == Len(blocks)
                   data == doc[Len(doc)].data
                   high == data[2][2]
                   medium == data[3][2]
                   low == data[4][2]
                   shown == doc[Len(doc) - 1].tenths_percent
               IN  /\ high = Cardinality({k \in 1..n : blocks[k].confidence > 80})
                   /\ medium = Cardinality({k \in 1..n :
                                   /\ blocks[k].confidence >= 50
                                   /\ blocks[k].confidence <= 80})
                   /\ low = Cardinality({k \in 1..n : blocks[k].confidence < 50})
                   /\ high + medium + low = n
                   /\ 2 * Abs(shown * n - 10 * TotalConfidence(blocks, n)) <= n

\* Confidences [0.9, 0.6, 0.3]: one fragment per bucket, average 60.0%.
C9_Witness ==
    /\ pc = "confidence_added"
    /\ [k \in 1..Len(text_blocks) |-> text_blocks[k].confidence] = <<90, 60, 30>>
    /\ doc[3].data[2][2] = 1
    /\ doc[3].data[3][2] = 1
    /\ doc[3].data[4][2] = 1
    /\ doc[2].tenths_percent = 600

\* C10: for the empty fragment list no component raises: _format_text_structure
\* returns the empty string, _detect_tables the empty list, and
\* add_confidence_scores, called directly or through create_complete_document,
\* divides by nothing and adds no confidence section.
C10_EmptyListHandled ==
    /\ (pc = "formatted" /\ text_blocks = <<>>) =>
           formatted_text = <<>> /\ raised = "none"
    /\ (pc = "detected" /\ text_blocks = <<>>) =>
           tables = <<>> /\ rows = <<>> /\ raised = "none"
    /\ (pc = "confidence_added" /\ text_blocks = <<>>) =>
           doc = NewDocument /\ raised = "none"
    /\ (pc = "document_created" /\ args.text_blocks = <<>>) =>
           /\ raised = "none"
           /\ \A k \in 1..Len(doc) : doc[k] # ConfidenceHeading

C10_Witness ==
    /\ pc = "confidence_added"
    /\ text_blocks = <<>>
    /\ doc = NewDocument
    /\ raised = "none"

-----------------------------------------------------------------------------
(* Properties of process_image (Spec) *)

NoTextError == Some("No text detected in image")

\* C6: when the OCR engine returns an empty fragment list, process_image returns
\* (it does not raise) success = False, a non-empty error string, and empty
\* text_blocks, formatted_text and tables, whatever the two flags are.
C6_NoFragmentsIsUnsuccessful ==
    (pc = "processed" /\ ocr[1].returned = <<>>) =>
        /\ raised = "none"
        /\ result # None
        /\ result[1].success = FALSE
        /\ result[1].error # None
        /\ result[1].error[1] # ""
        /\ result[1].text_blocks = <<>>
        /\ result[1].formatted_text = <<>>
        /\ result[1].tables = <<>>

\* The recogniser reported text, all of it at or below the confidence floor.
C6_Witness ==
    /\ pc = "processed"
    /\ ocr[1].outcome = "ok"
    /\ Len(ocr[1].results) = 2
    /\ ocr[1].returned = <<>>
    /\ args.enhance_quality
    /\ args.detect_tables
    /\ result[1].success = FALSE

\* C7: when the OCR engine returns a non-empty fragment list, process_image
\* returns success = True, error = None, that list as text_blocks, its paragraph
\* reconstruction as formatted_text, and as tables its table reconstruction when
\* detect_tables is set and the empty list otherwise; so success is True iff the
\* list is non-empty.
C7_FragmentsAreReconstructed ==
    pc = "processed" =>
        /\ result # None
        /\ result[1].success <=> (ocr[1].returned # <<>>)
        /\ ocr[1].returned # <<>> =>
              /\ raised = "none"
              /\ result[1].error = None
              /\ result[1].text_blocks = ocr[1].returned
              /\ result[1].formatted_text = FormatTextStructure(ocr[1].returned)
              /\ args.detect_tables =>
                    result[1].tables = DetectTables(ocr[1].returned)
              /\ ~args.detect_tables => result[1].tables = <<>>

\* Four fragments that form a 2 x 2 table, processed without detect_tables: two
\* paragraphs and no table.
C7_Witness ==
    /\ pc = "processed"
    /\ ~args.detect_tables
    /\ Len(ocr[1].returned) = 4
    /\ DetectTables(ocr[1].returned) # <<>>
    /\ result[1].success
    /\ result[1].tables = <<>>
    /\ Len(SplitParagraphs(result[1].formatted_text)) = 2

\* The OCR backend of the last process_image call was unavailable (the EasyOCR
\* reader failed to initialise) or its recogniser call raised.
BackendFailed ==
    /\ ocr # None
    /\ \/ ocr[1].outcome = "raises"
       \/ ocr_engine[1].class = "EasyOCREngine" /\ ocr_engine[1].reader = None

\* C8 as stated: when the OCR backend is unavailable or fails, process_image
\* does not return the 'No text detected' result; the failure reaches the caller
\* as an error.
C8_BackendFailurePropagates ==
    (pc = "processed" /\ BackendFailed) =>
        /\ raised # "none"
        /\ ~(result # None /\ result[1].error = NoTextError)

\* The positions in cs of the calls of one of the functions fns.
CallsOf(cs, fns) == {k \in 1..Len(cs) : cs[k].fn \in fns}

-----------------------------------------------------------------------------
(* Properties of repeated reconstruction calls (SpecRepeat) *)

NoSpaceAtEnds(s) == s = <<>> \/ (~IsSpace(s[1]) /\ ~IsSpace(s[Len(s)]))

\* Every whitespace character of s is one space between two other characters.
SingleSpacesOnly(s) ==
    \A i \in 1..Len(s) :
        IsSpace(s[i]) => s[i] = " " /\ i > 1 /\ ~IsSpace(s[i - 1])

\* C11: for a list of exactly one fragment, _format_text_structure returns
\* that fragment's text trimmed and with every whitespace run collapsed to one
\* space (the same words, no paragraph separator), and _detect_tables
\* returns the empty list.
C11_SingleFragment ==
    Len(text_blocks) = 1 =>
        \A k \in 1..Len(calls) :
            /\ calls[k].fn = "_format_text_structure" =>
                   /\ calls[k].returned = clean_text(text_blocks[1].text)
                   /\ Split(calls[k].returned) = Split(text_blocks[1].text)
                   /\ NoSpaceAtEnds(calls[k].returned)
                   /\ SingleSpacesOnly(calls[k].returned)
                   /\ Len(SplitParagraphs(calls[k].returned)) = 1
            /\ calls[k].fn = "_detect_tables" => calls[k].returned = <<>>

\* The one fragment " b  c\n" gives "b c", and no table.
C11_Witness ==
    /\ Len(text_blocks) = 1
    /\ text_blocks[1].text = <<" ", "b", " ", " ", "c", "\n">>
    /\ Len(calls) = 2
    /\ calls[1].fn = "_format_text_structure"
    /\ calls[1].returned = <<"b", " ", "c">>
    /\ calls[2].fn = "_detect_tables"
    /\ calls[2].returned = <<>>

\* Every call recorded in cs under the name fn returned the same value.
SameResults(cs, fn) ==
    \A j, k \in 1..Len(cs) :
        (cs[j].fn = fn /\ cs[k].fn = fn) => cs[j].returned = cs[k].returned

\* C12: a call of _format_text_structure or _detect_tables leaves the list it
\* is given as it was (same fragments, same order, same field values) and
\* leaves the converter as it was; however many calls were made before and in
\* whatever order, each method returns what it returned before; and the
\* paragraph text holds the words of the fragments in input order, also when
\* _detect_tables has sorted a row by x_center in between.
C12_CallsLeaveListAndResultsUnchanged ==
    [][ /\ text_blocks' = text_blocks
        /\ ocr_engine' = ocr_engine
        /\ SameResults(calls', "_format_text_structure")
        /\ SameResults(calls', "_detect_tables")
        /\ \A k \in 1..Len(calls') :
              /\ calls'[k].fn = "_format_text_structure" =>
                     /\ calls'[k].returned = FormatTextStructure(text_blocks)
                     /\ Split(calls'[k].returned) = AllWords(text_blocks)
              /\ calls'[k].fn = "_detect_tables" =>
                     calls'[k].returned = DetectTables(text_blocks) ]_vars

\* The list is two rows of two fragments whose first row is given right to
\* left; _detect_tables, called between two calls of _format_text_structure,
\* returns the rows sorted left to right, and both paragraph texts still read
\* in input order.
C12_Witness ==
    /\ Len(text_blocks) = 4
    /\ text_blocks[1].x_center > text_blocks[2].x_center
    /\ Len(calls) = 3
    /\ calls[1].fn = "_format_text_structure"
    /\ calls[2].fn = "_detect_tables"
    /\ calls[3].fn = "_format_text_structure"
    /\ calls[2].returned = << << <<"b", " ", "c">>, <<"a">> >>,
                              << <<"d">>, <<"e">> >> >>
    /\ calls[1].returned = <<"a", " ", "b", " ", "c", "\n", "\n",
                              "d", " ", "e">>
    /\ calls[3].returned = calls[1].returned

-----------------------------------------------------------------------------
(* Properties of the OCR engines (SpecEngines) *)

Elements(seq) == {seq[k] : k \in 1..Len(seq)}

Texts(seq) == {seq[k].text : k \in 1..Len(seq)}

\* The greatest confidence among the entries of seq whose text is text.
MaxConfidence(seq, text) ==
    CHOOSE c \in {e.confidence : e \in {x \in Elements(seq) : x.text = text}} :
        \A e \in Elements(seq) : e.text = text => e.confidence <= c

\* C14: the list returned by extract_with_multiple_attempts has no two entries
\* with the same text, has an entry for exactly the texts found by some
\* attempt, and each entry is one of the attempts' entries for its text with
\* the greatest confidence any attempt gave that text.
C14_OneEntryPerTextWithMaxConfidence ==
    pc = "attempts" =>
        LET all_results == ocr[1].all_results
            returned == ocr[1].returned
        IN  /\ \A j, k \in 1..Len(returned) :
                   returned[j].text = returned[k].text => j = k
            /\ Texts(returned) = Texts(all_results)
            /\ \A k \in 1..Len(returned) :
                   /\ returned[k] \in Elements(all_results)
                   /\ returned[k].confidence
                          = MaxConfidence(all_results, returned[k].text)

\* The attempts find "a" at 0.60, "a" at 1.00 and "b" at 0.06: two entries are
\* returned, "a" with 1.00 from the second attempt and "b".
C14_Witness ==
    /\ pc = "attempts"
    /\ Len(ocr[1].all_results) = 3
    /\ ocr[1].all_results[1].text = <<"a">>
    /\ ocr[1].all_results[1].confidence = 60
    /\ ocr[1].all_results[2].text = <<"a">>
    /\ ocr[1].all_results[2].confidence = 100
    /\ Len(ocr[1].returned) = 2
    /\ ocr[1].returned[1] = ocr[1].all_results[2]
    /\ ocr[1].returned[2].text = <<"b">>

\* The entries each of the three attempts contributed.
AttemptLists ==
    [i \in 1..3 |-> AttemptResults(ocr_engine[1], ocr[1].attempts[i])]

\* C15 as stated: the set of merged entries (text, bounding box, centre,
\* confidence) does not depend on the order in which the attempts' result
\* lists are combined, nor on how they are grouped.
C15_MergeCommutativeAssociative ==
    pc = "attempts" =>
        LET r == AttemptLists
        IN  /\ \A i, j \in 1..3 :
                   Elements(Merge(r[i] \o r[j])) = Elements(Merge(r[j] \o r[i]))
            /\ \A i, j, k \in 1..3 :
                   Elements(Merge(Merge(r[i] \o r[j]) \o r[k]))
                       = Elements(Merge(r[i] \o Merge(r[j] \o r[k])))
            /\ \A i, j, k \in 1..3 :
                   {i, j, k} = {1, 2, 3} =>
                       Elements(Merge(r[i] \o r[j] \o r[k]))
                           = Elements(ocr[1].returned)

\* A call of one of the engines' extraction operations has returned.
EngineReturned == pc \in {"extracted", "handwritten", "attempts"}

\* C16 as stated: every fragment returned by TesseractEngine's or
\* EasyOCREngine's extract_text_with_positions or by HandwritingOCREngine's
\* extraction has a text that is non-empty after trimming, whatever the
\* recogniser reported.
C16_ReturnedTextNonEmpty ==
    EngineReturned =>
        \A k \in 1..Len(text_blocks) : Strip(text_blocks[k].text) # <<>>

\* The confidence floor of an engine, in hundredths.
Floor(engine) == IF engine.class = "HandwritingOCREngine" THEN 5 ELSE 30

\* What the recogniser reported during the call: the results of every attempt
\* for extract_with_multiple_attempts.
Reported ==
    IF pc = "attempts"
    THEN UNION {Elements(ocr[1].attempts[i].results) : i \in 1..3}
    ELSE Elements(ocr[1].results)

\* C17: every fragment returned by an engine has a confidence greater than the
\* engine's floor (0.30 for TesseractEngine and EasyOCREngine, 0.05 for
\* HandwritingOCREngine) and at most 1.00: it is the score of a recogniser
\* result above the floor, so no result at or below the floor is returned.
C17_ConfidenceAboveFloor ==
    EngineReturned =>
        \A k \in 1..Len(text_blocks) :
            /\ text_blocks[k].confidence > Floor(ocr_engine[1])
            /\ text_blocks[k].confidence <= 100
            /\ \E d \in Reported :
                   /\ d.conf > Floor(ocr_engine[1])
                   /\ text_blocks[k].confidence = d.conf
                   /\ text_blocks[k].text = Strip(d.text)
                   /\ text_blocks[k].bbox = BBox(d)

\* The handwriting recogniser reports "b" at 0.06, "c" at 0.05 and "a" at
\* 1.00: "c" is dropped, the other two are returned.
C17_Witness ==
    /\ pc = "handwritten"
    /\ Len(ocr[1].results) = 3
    /\ ocr[1].results[1].conf = 6
    /\ ocr[1].results[2].conf = 5
    /\ ocr[1].results[3].conf = 100
    /\ Len(text_blocks) = 2
    /\ text_blocks[1].confidence = 6
    /\ text_blocks[2].confidence = 100

-----------------------------------------------------------------------------
(* Properties of a run of main (SpecMain) *)

MaxFileSize == MAX_FILE_SIZE_MB * 1024 * 1024

\* C18 as stated: validate_image accepts every well-formed upload of at most
\* 10 MB whose format is one of ALLOWED_EXTENSIONS (png, jpg, jpeg, bmp, tiff,
\* webp), rejects every upload larger than 10 MB, and accepts no other format.
C18_ValidateAcceptsOfferedFormats ==
    \A k \in 1..Len(calls) :
        calls[k].fn = "validate_image" =>
            LET f == args.uploaded_file[1]
                is_valid == calls[k].returned.is_valid
            IN  /\ f.size > MaxFileSize => ~is_valid
                /\ (f.well_formed /\ f.size <= MaxFileSize) =>
                       (is_valid <=> InList(f.ext, ALLOWED_EXTENSIONS))

PerImageCalls == {"validate_image", "Image.open", "ImageToWordConverter",
                  "process_image", "create_word_document"}

\* C19: when validate_image found the upload invalid, the run reports the
\* error next and ends there: it constructs no converter and calls no
\* process_image; the place where the convert button is read is reached only
\* with an upload that validate_image accepted.
C19_InvalidUploadIsNeverProcessed ==
    /\ \A k \in 1..Len(calls) :
           (calls[k].fn = "validate_image" /\ ~calls[k].returned.is_valid) =>
               /\ pc = "ended"
               /\ Len(calls) = k + 1
               /\ calls[k + 1].fn = "st.error"
               /\ CallsOf(calls, {"ImageToWordConverter", "process_image"}) = {}
    /\ (pc = "validated" \/ CallsOf(calls, {"process_image"}) # {}) =>
           /\ validate_image(args.uploaded_file).is_valid
           /\ \E k \in CallsOf(calls, {"validate_image"}) :
                  /\ calls[k].returned.is_valid
                  /\ \A j \in CallsOf(calls, {"process_image"}) : k < j

\* A well-formed png one byte over 10 MB: validated, reported, and the run
\* has ended.
C19_Witness ==
    /\ pc = "ended"
    /\ CallsOf(calls, {"validate_image"}) = {2}
    /\ args.uploaded_file # None
    /\ args.uploaded_file[1].size = MaxFileSize + 1
    /\ args.uploaded_file[1].ext = "png"
    /\ args.uploaded_file[1].well_formed
    /\ Len(calls) = 3
    /\ calls[2].fn = "validate_image"
    /\ calls[2].returned.message = "File size exceeds 10MB limit"
    /\ calls[3].fn = "st.error"

\* C20: when get_available_engines returned the empty list, the run reports
\* the error next and ends there, having validated no upload, constructed no
\* converter and processed no image; any such step of a run comes after an
\* engine check that found an engine.
C20_NoEngineEndsRunFirst ==
    /\ \A k \in 1..Len(calls) :
           (calls[k].fn = "get_available_engines" /\ calls[k].returned = <<>>) =>
               /\ pc = "ended"
               /\ k = 1
               /\ Len(calls) = 2
               /\ calls[2].fn = "st.error"
               /\ ocr_engine = None
               /\ result = None
    /\ CallsOf(calls, PerImageCalls) # {} =>
           /\ calls[1].fn = "get_available_engines"
           /\ calls[1].returned # <<>>
           /\ 1 \notin CallsOf(calls, PerImageCalls)

\* Neither pytesseract nor easyocr is usable: the engine check, the error,
\* the end.
C20_Witness ==
    /\ pc = "ended"
    /\ ~args.env.tesseract
    /\ ~args.env.easyocr
    /\ Len(calls) = 2
    /\ calls[1].fn = "get_available_engines"
    /\ calls[1].returned = <<>>
    /\ calls[2].fn = "st.error"

-----------------------------------------------------------------------------
(* Properties of get_best_ocr_engine (SpecBest) *)

\* C21: get_best_ocr_engine returns an EasyOCR engine whenever easyocr is
\* available, tesseract being available or not; a Tesseract engine when only
\* tesseract is available; and raises RuntimeError, returning no engine, when
\* neither is.
C21_EasyOcrThenTesseract ==
    pc \in {"best", "failed", "best_extracted"} =>
        /\ args.env.easyocr =>
               /\ pc # "failed"
               /\ ocr_engine # None
               /\ ocr_engine[1].class = "EasyOCREngine"
        /\ (~args.env.easyocr /\ args.env.tesseract) =>
               /\ pc # "failed"
               /\ ocr_engine = Some(TesseractEngine)
        /\ (~args.env.easyocr /\ ~args.env.tesseract) =>
               /\ pc = "failed"
               /\ raised = "RuntimeError"
               /\ ocr_engine = None

\* Both engines are available: the EasyOCR engine is returned.
C21_Witness ==
    /\ pc = "best"
    /\ args.env.easyocr
    /\ args.env.tesseract
    /\ ocr_engine[1].class = "EasyOCREngine"

-----------------------------------------------------------------------------
(* Properties of several calls on one converter (SpecSession) *)

HeaderHeading == Heading("Extracted Document Content", 0)

\* C22: whatever calls were made before on the converter, a process_image
\* call returns the reconstruction of that call's OCR output under that
\* call's flag, and a create_word_document call returns the document a new
\* generator builds from that call's arguments (one header, nothing of an
\* earlier document); so two calls with the same input return the same value.
C22_NoStateBetweenCalls ==
    /\ \A k \in 1..Len(calls) :
           /\ calls[k].fn = "process_image" =>
                  calls[k].returned
                      = ProcessImageResult(
                            extract_text_with_positions(
                                ocr_engine[1], "ok", calls[k].input.results),
                            calls[k].input.detect_tables)
           /\ calls[k].fn = "create_word_document" =>
                  /\ calls[k].returned
                         = create_complete_document(
                               calls[k].input.text_content,
                               calls[k].input.tables,
                               calls[k].input.original_image,
                               calls[k].input.text_blocks, TRUE).doc
                  /\ Count(calls[k].returned, HeaderHeading) = 1
    /\ \A j, k \in 1..Len(calls) :
           (calls[j].fn = calls[k].fn /\ calls[j].input = calls[k].input) =>
               calls[j].returned = calls[k].returned

\* A grid is processed into a table, and two documents are created from the
\* result one after the other: the second is the same as the first.
C22_Witness ==
    /\ Len(calls) = 3
    /\ calls[1].fn = "process_image"
    /\ calls[1].returned.success
    /\ calls[1].returned.tables # <<>>
    /\ calls[2].fn = "create_word_document"
    /\ calls[3].fn = "create_word_document"
    /\ calls[2].input.original_image # None
    /\ calls[3].input = calls[2].input
    /\ calls[3].returned = calls[2].returned
    /\ doc = calls[3].returned

-----------------------------------------------------------------------------
(* The format of the paragraph text (SpecParagraphs) *)

\* The number of the paragraph fragment i belongs to.
ParagraphOf(blocks, i) == 1 + Cardinality({g \in GapsOver30(blocks) : g <= i})

\* The cleaned texts of the fragments of paragraph p from position i on, in
\* input order.
RECURSIVE CleanedIn(_, _, _)
CleanedIn(blocks, p, i) ==
    IF i > Len(blocks) THEN <<>>
    ELSE (IF ParagraphOf(blocks, i) = p THEN <<clean_text(blocks[i].text)>>
          ELSE <<>>) \o CleanedIn(blocks, p, i + 1)

\* Every newline of s is one of a pair: a run of newlines has length two.
NewlinesInPairs(s) ==
    \A i \in 1..Len(s) :
        s[i] = "\n" =>
            LET before == i > 1 /\ s[i - 1] = "\n"
                after == i < Len(s) /\ s[i + 1] = "\n"
            IN  (before \/ after) /\ ~(before /\ after)

\* C23: for a fragment sequence whose cleaned texts are all non-empty, the
\* text returned by _format_text_structure has no whitespace at its ends, its
\* newlines come in runs of exactly two, and each piece between two such runs
\* is one reconstructed paragraph: the cleaned texts of its fragments in
\* input order joined by one space, without a newline and without two
\* adjacent spaces.
C23_OutputFormat ==
    (pc = "formatted" /\ text_blocks # <<>> /\ CleanedNonEmpty(text_blocks)) =>
        LET paragraphs == SplitParagraphs(formatted_text)
        IN  /\ NoSpaceAtEnds(formatted_text)
            /\ NewlinesInPairs(formatted_text)
            /\ Len(paragraphs) = 1 + Cardinality(GapsOver30(text_blocks))
            /\ \A p \in 1..Len(paragraphs) :
                   /\ paragraphs[p]
                          = Join(CleanedIn(text_blocks, p, 1), <<" ">>)
                   /\ \A i \in 1..Len(paragraphs[p]) : paragraphs[p][i] # "\n"
                   /\ SingleSpacesOnly(paragraphs[p])
                   /\ NoSpaceAtEnds(paragraphs[p])

\* Three paragraphs, the middle one of two fragments, one of which had a
\* newline and two spaces inside its text.
C23_Witness ==
    /\ pc = "formatted"
    /\ CleanedNonEmpty(text_blocks)
    /\ YCenters(text_blocks) = <<50, 10, 15, 50>>
    /\ text_blocks[2].text = <<"b", " ", "\n", "c">>
    /\ text_blocks[3].text = <<"a">>
    /\ SplitParagraphs(formatted_text)[2] = <<"b", " ", "c", " ", "a">>
    /\ Len(SplitParagraphs(formatted_text)) = 3

-----------------------------------------------------------------------------
(* Row clustering as a partition of the input (SpecTables) *)

\* The row that holds the fragment at input position i.
RowOf(rs, i) ==
    CHOOSE k \in 1..Len(rs) : SegFirst(rs, k) <= i /\ i <= SegLast(rs, k)

\* The numbers of the rows of 2 or more fragments from row k on, increasing.
RECURSIVE QualifyingFrom(_, _)
QualifyingFrom(rs, k) ==
    IF k > Len(rs) THEN <<>>
    ELSE (IF Len(rs[k]) >= 2 THEN <<k>> ELSE <<>>) \o QualifyingFrom(rs, k + 1)

CleanedSegment(blocks, rs, k) ==
    [i \in 1..Len(rs[k]) |-> clean_text(blocks[SegFirst(rs, k) + i - 1].text)]

\* C24: the clustered rows partition the input: the rows are non-empty, their
\* lengths add up to the number of fragments, and row k holds exactly the
\* fragments of the k-th consecutive run of the input, so rows follow the
\* order of their first fragments and so do the rows of the result.  Nothing
\* is sorted by y: two fragments that have between them a fragment 20 or more
\* away from the anchor of the first one's row are in different rows, equal
\* y_centers or not.
C24_RowsPartitionTheInput ==
    pc = "detected" =>
        /\ SumLen(rows, Len(rows)) = Len(text_blocks)
        /\ \A k \in 1..Len(rows) :
               Len(rows[k]) >= 1 /\ RowIsSegment(text_blocks, rows, k)
        /\ \A i \in 1..Len(text_blocks) :
               Cardinality({k \in 1..Len(rows) :
                               SegFirst(rows, k) <= i /\ i <= SegLast(rows, k)}) = 1
        /\ \A i, m, j \in 1..Len(text_blocks) :
               (/\ i < m /\ m < j
                /\ Abs(text_blocks[m].y_center
                       - text_blocks[SegFirst(rows, RowOf(rows, i))].y_center)
                       >= 20) =>
                   RowOf(rows, i) < RowOf(rows, j)
        /\ tables # <<>> =>
               LET q == QualifyingFrom(rows, 1)
               IN  /\ Len(tables) = Len(q)
                   /\ \A n \in 1..Len(q) :
                          IsPermutation(tables[n],
                                        CleanedSegment(text_blocks, rows, q[n]))

\* Two fragments at y 10 with one at y 40 between them: three rows of one.
C24_Witness ==
    /\ pc = "detected"
    /\ YCenters(text_blocks) = <<10, 40, 10>>
    /\ Len(rows) = 3
    /\ rows[1] = <<text_blocks[1]>>
    /\ rows[3] = <<text_blocks[3]>>

-----------------------------------------------------------------------------
(* The reconstructed table in the document (SpecSession) *)

\* The tables add_tables put into document d, in order.
RECURSIVE GridTables(_)
GridTables(d) ==
    IF d = <<>> THEN <<>>
    ELSE (IF Head(d).kind = "table" /\ "cells" \in DOMAIN Head(d)
          THEN <<Head(d)>> ELSE <<>>) \o GridTables(Tail(d))

\* C25 as stated: when a non-empty value of _detect_tables is handed to
\* create_word_document, the document has exactly one table for it, with one
\* document row per qualifying row, one column per cell of the widest row, and
\* each document cell holding the corresponding cell string.
C25_OneTablePerFragmentSet ==
    \A k \in 1..Len(calls) :
        (calls[k].fn = "create_word_document" /\ calls[k].input.tables # <<>>) =>
            LET tbl == calls[k].input.tables
                found == GridTables(calls[k].returned)
            IN  /\ Len(found) = 1
                /\ Len(found[1].cells) = Len(tbl)
                /\ \A r \in 1..Len(tbl) :
                       /\ Len(found[1].cells[r]) = MaxLen(tbl)
                       /\ \A c \in 1..Len(tbl[r]) :
                              found[1].cells[r][c] = tbl[r][c]

-----------------------------------------------------------------------------
(* The paragraph text read back by the renderer (SpecRender) *)

\* The body elements of the text section: what lies between its heading and
\* the empty paragraph that ends it.
TextBody(d) == SubSeq(d, 2, Len(d) - 1)

\* C26: for a fragment sequence whose cleaned texts are all non-empty, the
\* pieces add_extracted_text gets by splitting the text of
\* _format_text_structure on blank lines are exactly the reconstructed
\* paragraphs, in order, none empty, and the text section of the document has
\* one body element per reconstructed paragraph, a paragraph or a level 2
\* heading that holds the paragraph's text.
C26_OneElementPerParagraph ==
    (pc = "text_added" /\ text_blocks # <<>> /\ CleanedNonEmpty(text_blocks)) =>
        LET n == 1 + Cardinality(GapsOver30(text_blocks))
            pieces == SplitParagraphs(formatted_text)
            body == TextBody(doc)
        IN  /\ Len(pieces) = n
            /\ doc[1] = Heading("Extracted Text Content", 1)
            /\ doc[Len(doc)] = EmptyParagraph
            /\ Len(body) = n
            /\ \A p \in 1..n :
                   LET para == Join(CleanedIn(text_blocks, p, 1), <<" ">>)
                   IN  /\ para # <<>>
                       /\ pieces[p] = para
                       /\ body[p] \in {Paragraph(para), TextHeading(para, 2)}

\* Three paragraphs reach the document: a heading "A", then the paragraph
\* "b c a", then the paragraph "a".
C26_Witness ==
    /\ pc = "text_added"
    /\ CleanedNonEmpty(text_blocks)
    /\ Len(text_blocks) = 4
    /\ TextBody(doc) = << TextHeading(<<"A">>, 2),
                          Paragraph(<<"b", " ", "c", " ", "a">>),
                          Paragraph(<<"a">>) >>

-----------------------------------------------------------------------------
(* The sections of the complete document (SpecComponents) *)

\* The titles of the section headings of d, in document order: the title
\* (level 0) and the level 1 headings.
RECURSIVE SectionTitles(_)
SectionTitles(d) ==
    IF d = <<>> THEN <<>>
    ELSE (IF Head(d).kind = "heading" /\ "title" \in DOMAIN Head(d)
          THEN <<Head(d).title>> ELSE <<>>) \o SectionTitles(Tail(d))

-----------------------------------------------------------------------------
(* main after an unsuccessful result (SpecMain) *)

\* C28: in a run of main there is at most one process_image call; when its
\* result is unsuccessful the run ends with a warning that shows the result's
\* error, and neither create_word_document nor the download button is
\* reached; create_word_document and the download button come only after a
\* process_image call whose result is successful.
C28_NoDocumentAfterFailure ==
    /\ Cardinality(CallsOf(calls, {"process_image"})) <= 1
    /\ (pc = "ended" /\ CallsOf(calls, {"process_image"}) # {}
            /\ ~result[1].success) =>
           /\ \E k \in CallsOf(calls, {"st.warning"}) :
                  /\ calls[k].message = result[1].error
                  /\ calls[k].message # None
                  /\ \A j \in CallsOf(calls, {"process_image"}) : j < k
           /\ CallsOf(calls, {"create_word_document", "st.download_button"}) = {}
           /\ doc = <<>>
    /\ \A k \in CallsOf(calls, {"create_word_document", "st.download_button"}) :
           /\ \E j \in CallsOf(calls, {"process_image"}) : j < k
           /\ result[1].success

\* A run in which the engine recognised nothing: the warning is the last
\* thing but one, and no document was made.
C28_Witness ==
    /\ pc = "ended"
    /\ CallsOf(calls, {"process_image"}) # {}
    /\ ~result[1].success
    /\ result[1].error = Some("No text detected in image")
    /\ calls[Len(calls) - 1] = Warning(result[1].error)
    /\ CallsOf(calls, {"create_word_document"}) = {}

-----------------------------------------------------------------------------
(* The constructor's fallback (Spec) *)

\* C29: constructing the converter never fails and leaves an engine in
\* ocr_engine, whatever engine type is asked for: for a type the factory
\* does not know the engine of get_best_ocr_engine is used.
C29_ConstructionAlwaysYieldsEngine ==
    pc # "start" =>
        /\ pc # "failed"
        /\ raised = "none"
        /\ ocr_engine # None

-----------------------------------------------------------------------------
(* The size of the resized image (SpecResize) *)

\* floor(a / b) for a >= 0 and b > 0, by its defining inequalities.
FloorOf(a, b) == CHOOSE q \in 0..a : q * b <= a /\ a < (q + 1) * b

\* What the description of resize_image_if_needed says of one call that
\* returned, without the lower bound on the size.
ResizedAsDescribed(in, out) ==
    LET larger == IF in.width > in.height THEN in.width ELSE in.height
    IN  /\ larger <= max_dimension => out = in
        /\ larger > max_dimension =>
               /\ in.width > in.height =>
                      /\ out.width = max_dimension
                      /\ out.height = FloorOf(in.height * max_dimension, in.width)
               /\ in.width <= in.height =>
                      /\ out.height = max_dimension
                      /\ out.width = FloorOf(in.width * max_dimension, in.height)
               /\ out.mode = in.mode
        /\ out.width <= max_dimension
        /\ out.height <= max_dimension

\* C30: resize_image_if_needed returns for every image; the image is
\* unchanged when neither side is over 2000, otherwise its larger side is
\* exactly 2000 and the other side is floor(other * 2000 / larger); no side of
\* the result is over 2000, each is at least 1, and a second application to
\* the result changes nothing.
C30_ResizeWithinBounds ==
    /\ pc # "failed"
    /\ \A k \in 1..Len(calls) :
           /\ ResizedAsDescribed(calls[k].image, calls[k].returned)
           /\ calls[k].returned.width >= 1
           /\ calls[k].returned.height >= 1
           /\ k = 2 => calls[k].returned = calls[k].image

\* The part of C30 that does not speak of the lower bound.
ResizeHoldsApartFromLowerBound ==
    \A k \in 1..Len(calls) :
        /\ ResizedAsDescribed(calls[k].image, calls[k].returned)
        /\ k = 2 => calls[k].returned = calls[k].image

====
